---- MODULE Spec2Model ----
(***************************************************************************)
(* A model of nexus_core (Ghenghis/Winhance): the NTFS volume enumerator   *)
(* and its path resolver (indexer/mft_reader.rs), the USN journal tailer   *)
(* (indexer/usn_journal.rs), the indexer orchestrator (indexer/mod.rs) and *)
(* the search engine (search/tantivy_engine.rs).                           *)
(*                                                                         *)
(* Each subsystem has its own variables, its own Init and Next and its own *)
(* specification; the variables of the other subsystems stay at their      *)
(* initial value under it.                                                 *)
(*                                                                         *)
(* Strings are sequences of characters ("a.T" is <<"a", ".", "T">>); the     *)
(* empty string is the empty sequence.                                     *)
(***************************************************************************)
EXTENDS Integers, Sequences, FiniteSets, TLC

VARIABLES
    \* ---- path resolver (mft_reader.rs, build_path) ----
    file_refs,      \* HashMap<u64,(String,u64)>: masked reference -> (name, parent)
    path_cache,     \* HashMap<u64,String>: memoized paths
    stack,          \* the call stack of build_path: the file_ref of every active call
    ret,            \* the value the last completed build_path call returned
    rphase          \* "idle" (no call active), "call" (top frame just entered),
                    \* "return" (a callee has returned into the top frame)

resolveVars == <<file_refs, path_cache, stack, ret, rphase>>

VARIABLES
    \* ---- USN journal tailer (usn_journal.rs) ----
    owner,          \* the UsnJournal value: "alive" or "dropped"
    running,        \* UsnJournal.running (Arc<AtomicBool>)
    rx,             \* the Receiver start_monitoring returned: "none", "alive", "dropped"
    chan,           \* the mpsc channel: the changes sent and not yet received
    tpc,            \* the position of the spawned thread
    thandle,        \* the volume handle of the thread: "none", "open", "closed"
    StartUsn,       \* read_data.StartUsn
    next_usn,       \* the cursor read from bytes 0..8 of the buffer
    tbytes,         \* bytes_returned of the last IOCTL
    toffset,        \* offset of the record loop
    treadHi,        \* one past the highest buffer offset read since the last IOCTL
    tstop,          \* why the record loop last stopped
    sendFailed      \* whether a tx.send has returned Err

tailerVars == <<owner, running, rx, chan, tpc, thandle, StartUsn, next_usn,
                tbytes, toffset, treadHi, tstop, sendFailed>>

VARIABLES
    \* ---- volume enumerator (mft_reader.rs, scan_volume) ----
    mvolume,        \* the records the volume holds: what the IOCTL may put in a buffer
    mpc,            \* the position of scan_volume / enumerate_usn_data
    mhandle,        \* the volume handle: "none", "open", "closed"
    mresult,        \* what scan_volume returned: "none", "Ok", "PermissionDenied", "Windows"
    start_file_reference, \* enum_data.start_file_reference
    mbytes,         \* bytes_returned of the last IOCTL
    moffset,        \* offset of the record loop
    mreadHi,        \* one past the highest buffer offset read since the last IOCTL
    mstop,          \* why the record loop last stopped
    mrecord,        \* the header of the record the loop has just stepped over
    mentries,       \* entries: Vec<(file_ref, parent_ref, FileEntry)>
    midx,           \* the tuple the filter_map closure is at
    mpath,          \* path, the result of the first build_path call of the closure
    final_entries   \* final_entries: Vec<FileEntry>

mftVars == <<mvolume, mpc, mhandle, mresult, start_file_reference, mbytes, moffset,
             mreadHi, mstop, mrecord, mentries, midx, mpath, final_entries>>

VARIABLES
    committed,      \* the documents of the last commit of the index
    writer,         \* what the IndexWriter has queued since its last commit
    snapshot,       \* the documents of the searcher the reader has loaded
    wlock,          \* who holds the writer's Mutex
    epc,            \* per caller: where it is inside index_entries / clear
    ebatch,         \* per caller: the batch its index_entries call was given
    eidx,           \* per caller: how many entries of the batch it has added
    nbatches,       \* index_entries calls made so far
    eresult,        \* per batch: what its index_entries call returned
    okSinceClear,   \* the batches reported Ok since the last committed clear
    searched,       \* the searcher and the Ok batches of the last search call
    cleared,        \* clear has returned Ok and index_entries was not called since
    stated          \* what the last stats call reported, and cleared at that call

searchVars == <<committed, writer, snapshot, wlock, epc, ebatch, eidx, nbatches,
                eresult, okSinceClear, searched, cleared, stated>>

VARIABLES
    ppc,            \* "call" before should_include runs, "returned" after
    pconfig,        \* self.config of the call
    pentry,         \* the entry of the call
    pverdict,       \* what the call returned
    pconfig2,       \* self.config of a second call on the same entry
    pverdict2       \* what the second call returned

policyVars == <<ppc, pconfig, pentry, pverdict, pconfig2, pverdict2>>

VARIABLES
    iconfig,        \* self.config of the FastIndexer
    ipc,            \* "drives" while the per-drive tasks run, "done" after the return
    dpc,            \* per task: where its index_drive call is
    dscan,          \* per task: what scan_volume returned, "no" if not called
    dlist,          \* per task: the mft_entries still to be processed
    dwalked,        \* per task: the paths the walk has yielded
    entries,        \* the DashMap: a set of (key, value) pairs
    total_files,    \* AtomicU64
    total_dirs,     \* AtomicU64
    total_size,     \* AtomicU64
    lastInserted,   \* per path: the value of the latest insert under it
    accepted,       \* the entries should_include accepted, with their task
    iresult         \* what index_all returned

indexVars == <<iconfig, ipc, dpc, dscan, dlist, dwalked, entries, total_files,
               total_dirs, total_size, lastInserted, accepted, iresult>>

VARIABLES
    qpc,            \* where the search call is
    qentries,       \* the entries indexed, committed and loaded by the reader
    qquery,         \* the SearchQuery of the call
    qranked,        \* every matching document, best score first
    qtop,           \* top_docs
    qresults        \* results

queryVars == <<qpc, qentries, qquery, qranked, qtop, qresults>>

VARIABLES
    \* ---- reason_to_change_type (usn_journal.rs) ----
    rpc,            \* "call" before the function runs, "returned" after
    rreason,        \* the argument reason: u32
    rchange         \* the ChangeType returned

reasonVars == <<rpc, rreason, rchange>>

VARIABLES
    \* ---- glob_to_regex (tantivy_engine.rs) ----
    gpc,            \* "call", "loop" (inside for c in glob.chars()), "returned"
    gglob,          \* the argument glob: &str
    gnext,          \* the position of the next character of the loop
    gregex          \* the local String regex

globVars == <<gpc, gglob, gnext, gregex>>

VARIABLES
    \* ---- foreign boundary (ffi/mod.rs) ----
    LAST_ERROR,     \* static LAST_ERROR: Mutex<Option<String>>
    CACHED_ENTRIES, \* static CACHED_ENTRIES: Mutex<Vec<FileEntry>>
    SEARCH_RESULTS, \* static SEARCH_RESULTS: Mutex<Vec<FileEntry>>
    fop,            \* the boundary function that returned last
    farg,           \* its arguments
    fret,           \* what it returned
    fprev,          \* the call before it: was it nexus_search, did it return a sentinel
    flast           \* what the latest nexus_search that returned n >= 0 stored, emptied by a clear

ffiVars == <<LAST_ERROR, CACHED_ENTRIES, SEARCH_RESULTS, fop, farg, fret, fprev, flast>>

VARIABLES
    \* ---- the tailer's record loop over a journal (usn_journal.rs) ----
    jlen,           \* how many records the volume's journal holds; record i has USN i
    jpc,            \* the position of the tail thread: "query", "read", "sleep", "parse", "advance"
    jStartUsn,      \* read_data.StartUsn
    jbuffer,        \* the records the last IOCTL put in the buffer: first and last USN
    jnext_usn,      \* the cursor read from bytes 0..8 of the buffer
    joffset,        \* the record the loop is at
    jreads,         \* how many reads have returned records
    jrx,            \* the Receiver: "alive" or "dropped"
    jchan,          \* the changes sent and not yet received
    jreceived       \* the changes the receiver has got, in the order it got them

orderVars == <<jlen, jpc, jStartUsn, jbuffer, jnext_usn, joffset, jreads, jrx,
               jchan, jreceived>>

VARIABLES
    \* ---- host threads at the foreign boundary (ffi/mod.rs) ----
    hlock,          \* per static: the thread that holds its Mutex, or NoThread
    hpc,            \* per thread: where its call is
    hcall,          \* per thread: the function it is in, and the arguments
    hret,           \* per thread: what its last call returned, while it is in no call
    hmine           \* per thread: what its latest nexus_search stored, emptied by its own clear

hostVars == <<hlock, hpc, hcall, hret, hmine>>

VARIABLES
    \* ---- one UsnJournal started more than once (usn_journal.rs) ----
    uflag,          \* UsnJournal.running, the Arc<AtomicBool> every spawned thread shares
    upc,            \* per spawned thread: where it is; "none" before it is spawned
    ustopped        \* per thread: whether stop() has been called since it was spawned

restartVars == <<uflag, upc, ustopped>>

vars == <<resolveVars, tailerVars, mftVars, searchVars, policyVars, indexVars,
          queryVars, reasonVars, globVars, ffiVars, orderVars, hostVars, restartVars>>

notResolve == <<tailerVars, mftVars, searchVars, policyVars, indexVars,
               queryVars, reasonVars, globVars, ffiVars, orderVars, hostVars, restartVars>>

notTailer == <<resolveVars, mftVars, searchVars, policyVars, indexVars,
               queryVars, reasonVars, globVars, ffiVars, orderVars, hostVars, restartVars>>

\* What the enumerator leaves alone besides the resolver's state.
notMft == <<tailerVars, searchVars, policyVars, indexVars,
               queryVars, reasonVars, globVars, ffiVars, orderVars, hostVars, restartVars>>

notSearch == <<resolveVars, tailerVars, mftVars, policyVars, indexVars,
               queryVars, reasonVars, globVars, ffiVars, orderVars, hostVars, restartVars>>

notPolicy == <<resolveVars, tailerVars, mftVars, searchVars, indexVars,
               queryVars, reasonVars, globVars, ffiVars, orderVars, hostVars, restartVars>>

notIndex == <<resolveVars, tailerVars, mftVars, searchVars, policyVars,
             queryVars, reasonVars, globVars, ffiVars, orderVars, hostVars, restartVars>>

notQuery == <<resolveVars, tailerVars, mftVars, searchVars, policyVars,
             indexVars, reasonVars, globVars, ffiVars, orderVars, hostVars, restartVars>>

notReason == <<resolveVars, tailerVars, mftVars, searchVars, policyVars,
              indexVars, queryVars, globVars, ffiVars, orderVars, hostVars, restartVars>>

notGlob == <<resolveVars, tailerVars, mftVars, searchVars, policyVars,
            indexVars, queryVars, reasonVars, ffiVars, orderVars, hostVars, restartVars>>

notFfi == <<resolveVars, tailerVars, mftVars, searchVars, policyVars, indexVars, queryVars, reasonVars, globVars, orderVars, hostVars, restartVars>>

notOrder == <<resolveVars, tailerVars, mftVars, searchVars, policyVars, indexVars, queryVars, reasonVars, globVars, ffiVars, hostVars, restartVars>>

\* The host threads work on the statics of the foreign boundary: what their
\* steps leave alone besides them.
notHost == <<resolveVars, tailerVars, mftVars, searchVars, policyVars, indexVars, queryVars, reasonVars, globVars, orderVars, restartVars>>

notRestart == <<resolveVars, tailerVars, mftVars, searchVars, policyVars, indexVars, queryVars, reasonVars, globVars, ffiVars, orderVars, hostVars>>

(***************************************************************************)
(*                 Initial values of each subsystem at rest                *)
(***************************************************************************)

\* UsnJournal::new: running is false, nothing is spawned.
TailerIdle ==
    /\ owner = "alive"
    /\ running = FALSE
    /\ rx = "none"
    /\ chan = << >>
    /\ tpc = "none"
    /\ thandle = "none"
    /\ StartUsn = 0
    /\ next_usn = 0
    /\ tbytes = 0
    /\ toffset = 0
    /\ treadHi = 0
    /\ tstop = "none"
    /\ sendFailed = FALSE

\* The three fields of a record header the bounds tests look at.
RecordHeader(RecordLength, FileNameOffset, FileNameLength) ==
    [RecordLength |-> RecordLength, FileNameOffset |-> FileNameOffset,
     FileNameLength |-> FileNameLength]

\* The loop has stepped over no record since it started, or has ended.
NoRecord == RecordHeader(0, 0, 0)

\* Before scan_volume is called.
MftIdle ==
    /\ mvolume = {}
    /\ mpc = "start"
    /\ mhandle = "none"
    /\ mresult = "none"
    /\ start_file_reference = 0
    /\ mbytes = 0
    /\ moffset = 0
    /\ mreadHi = 0
    /\ mstop = "none"
    /\ mrecord = NoRecord
    /\ mentries = << >>
    /\ midx = 0
    /\ mpath = << >>
    /\ final_entries = << >>

\* No build_path call is active and nothing is cached.
ResolveStart ==
    /\ path_cache = << >>
    /\ stack = << >>
    /\ ret = << >>
    /\ rphase = "idle"

\* The resolver before any record was read: an empty table.
ResolveIdle ==
    /\ file_refs = << >>
    /\ ResolveStart

(***************************************************************************)
(*                            PATH RESOLVER                                *)
(***************************************************************************)

\* The MFT root directory reference.
root_ref == 5

\* How many references besides the root a reference table holds at most.
NRefs == 2

\* The deepest call stack the model follows (an unbounded recursion is cut here).
MaxDepth == 6

\* The drive the volume is enumerated for, as format!("{}:", drive) names it.
DriveRoot == <<"D", ":">>

Sep == "\\"

\* The file names records carry.
Names == {<<"a">>, <<"a", ".", "T">>}

\* The masked references records carry: the root, NRefs others.
TableRefs == root_ref .. (root_ref + NRefs)

\* A reference no record carries (absent from the table).
UnknownRef == root_ref + NRefs + 1

\* Parent references a record may carry: 0, any table reference, an unknown one.
ParentRefs == {0} \cup TableRefs \cup {UnknownRef}

AllRefs == ParentRefs

\* The reference tables enumeration can leave behind: any records for the
\* non-root references, and the root entry inserted after the loop
\* (file_refs.insert(root_ref, (format!("{}:", drive), 0))), which replaces any
\* record that carried reference 5.
RefTables ==
    { t \in UNION { [S \cup {root_ref} -> (Names \cup {DriveRoot}) \X ParentRefs] :
                      S \in SUBSET (TableRefs \ {root_ref}) } :
        /\ t[root_ref] = <<DriveRoot, 0>>
        /\ \A r \in DOMAIN t \ {root_ref} : t[r][1] \in Names }

\* format!("{}\\{}", parent_path, name)
FormatPath(parent_path, name) == parent_path \o <<Sep>> \o name

Top == stack[Len(stack)]

Pop == SubSeq(stack, 1, Len(stack) - 1)

AfterPop == IF Len(stack) = 1 THEN "idle" ELSE "return"

\* The closure of filter_map (or a caller) calls build_path(file_ref, ..).
BuildPathEnter(r) ==
    /\ rphase = "idle"
    /\ stack' = <<r>>
    /\ rphase' = "call"
    /\ UNCHANGED <<file_refs, path_cache, ret>>
    /\ UNCHANGED notResolve

\* if let Some(cached) = cache.get(&file_ref) { return cached.clone(); }
BuildPathCached ==
    /\ rphase = "call"
    /\ Top \in DOMAIN path_cache
    /\ ret' = path_cache[Top]
    /\ stack' = Pop
    /\ rphase' = AfterPop
    /\ UNCHANGED <<file_refs, path_cache>>
    /\ UNCHANGED notResolve

\* The sentinel test of build_path: the parent is 0 or the reference itself.
IsSentinel(file_ref, parent_ref) == parent_ref = 0 \/ parent_ref = file_ref

\* parent_ref == 0 || parent_ref == file_ref: the path is the name itself.
BuildPathRoot ==
    /\ rphase = "call"
    /\ Top \notin DOMAIN path_cache
    /\ Top \in DOMAIN file_refs
    /\ IsSentinel(Top, file_refs[Top][2])
    /\ path_cache' = [r \in DOMAIN path_cache \cup {Top} |->
                        IF r = Top THEN file_refs[Top][1] ELSE path_cache[r]]
    /\ ret' = file_refs[Top][1]
    /\ stack' = Pop
    /\ rphase' = AfterPop
    /\ UNCHANGED file_refs
    /\ UNCHANGED notResolve

\* let parent_path = build_path(*parent_ref, file_refs, cache): the recursive call.
\* Nothing is put in the cache before the callee returns.
BuildPathRecurse ==
    /\ rphase = "call"
    /\ Top \notin DOMAIN path_cache
    /\ Top \in DOMAIN file_refs
    /\ ~IsSentinel(Top, file_refs[Top][2])
    /\ Len(stack) < MaxDepth
    /\ stack' = Append(stack, file_refs[Top][2])
    /\ UNCHANGED <<file_refs, path_cache, ret, rphase>>
    /\ UNCHANGED notResolve

\* file_refs.get(&file_ref) is None: String::new().
BuildPathUnknown ==
    /\ rphase = "call"
    /\ Top \notin DOMAIN path_cache
    /\ Top \notin DOMAIN file_refs
    /\ ret' = <<>>
    /\ stack' = Pop
    /\ rphase' = AfterPop
    /\ UNCHANGED <<file_refs, path_cache>>
    /\ UNCHANGED notResolve

\* A return that caches the parent's path under the reference.
BuildPathReturnStale ==
    /\ rphase = "return"
    /\ LET path == FormatPath(ret, file_refs[Top][1]) IN
        /\ path_cache' = [r \in DOMAIN path_cache \cup {Top} |->
                            IF r = Top THEN ret ELSE path_cache[r]]
        /\ ret' = path
    /\ stack' = Pop
    /\ rphase' = AfterPop
    /\ UNCHANGED file_refs
    /\ UNCHANGED notResolve

\* The callee returned parent_path: format the path, cache it, return it.
BuildPathReturn ==
    /\ rphase = "return"
    /\ LET path == FormatPath(ret, file_refs[Top][1]) IN
        /\ path_cache' = [r \in DOMAIN path_cache \cup {Top} |->
                            IF r = Top THEN path ELSE path_cache[r]]
        /\ ret' = path
    /\ stack' = Pop
    /\ rphase' = AfterPop
    /\ UNCHANGED file_refs
    /\ UNCHANGED notResolve

ResolveNext ==
    \/ \E r \in AllRefs : BuildPathEnter(r)
    \/ BuildPathCached
    \/ BuildPathRoot
    \/ BuildPathRecurse
    \/ BuildPathUnknown
    \/ BuildPathReturn

\* C1: path resolution terminates for every reference table, cyclic ones
\* included: a build_path call never nests deeper than one frame per table
\* entry plus one frame for a reference absent from the table, so it returns
\* after a bounded number of steps.
C1_BuildPathBounded == Len(stack) <= Cardinality(DOMAIN file_refs) + 1

(***************************************************************************)
(*                          USN JOURNAL TAILER                             *)
(***************************************************************************)

\* let buffer_size = 64 * 1024
buffer_size == 64 * 1024

\* std::mem::size_of::<UsnRecord>(): the #[repr(C)] struct holds 60 bytes of
\* fields and is aligned to its u64 fields, so it is padded to 64 bytes.
UsnRecordSize == 64

\* How many sent and not yet received changes the model follows: while the
\* channel holds this many, the journal offers no further record to send.
MaxChan == 2

\* The cursors the journal hands out (FSCTL_QUERY_USN_JOURNAL's NextUsn, bytes
\* 0..8 of a read buffer) range over 0 .. MaxUsn.
MaxUsn == 1

Usns == 0 .. MaxUsn

\* What the read-journal IOCTL may report in bytes_returned.
TailBytesReturned == {0, 8, 40, 72, 80, 152}

\* What the bytes of a record header may hold.
RecordLengths == {0, 72, 200}

FileNameOffsets == {60, 64}

FileNameLengths == {0, 8, 100}

Max2(a, b) == IF a >= b THEN a ELSE b

\* A test of the record length that no header satisfies.
ZeroLengthNever(RecordLength) == FALSE

\* record.RecordLength == 0: the test both record loops break on.
ZeroLength(RecordLength) == RecordLength = 0

\* An advance that leaves the record loop at the record it has just read.
NextOffsetSame(offset, RecordLength) == offset

\* offset += record.RecordLength as usize (usize is 64 bits wide: an offset
\* below 2^16 plus a u32 does not wrap).
NextOffset(offset, RecordLength) == offset + RecordLength

\* A loop condition that does not look at the flag stop() stores.
LoopConditionStale == TRUE

\* while running.load(Ordering::SeqCst)
LoopCondition == running

\* start_monitoring: running.store(true), thread::spawn, Ok(rx). The model
\* follows one spawned thread per UsnJournal.
StartMonitoring ==
    /\ owner = "alive"
    /\ tpc = "none"
    /\ running' = TRUE
    /\ rx' = "alive"
    /\ tpc' = "open"
    /\ UNCHANGED <<owner, chan, thandle, StartUsn, next_usn, tbytes, toffset,
                   treadHi, tstop, sendFailed>>
    /\ UNCHANGED notTailer

\* stop: running.store(false)
Stop ==
    /\ owner = "alive"
    /\ running' = FALSE
    /\ UNCHANGED <<owner, rx, chan, tpc, thandle, StartUsn, next_usn, tbytes,
                   toffset, treadHi, tstop, sendFailed>>
    /\ UNCHANGED notTailer

\* The UsnJournal value goes out of scope. UsnJournal has no Drop impl: the
\* flag, shared through the Arc with the thread, keeps its value.
DropOwner ==
    /\ owner = "alive"
    /\ owner' = "dropped"
    /\ UNCHANGED <<running, rx, chan, tpc, thandle, StartUsn, next_usn, tbytes,
                   toffset, treadHi, tstop, sendFailed>>
    /\ UNCHANGED notTailer

\* The consumer drops the Receiver: the channel is closed.
DropReceiver ==
    /\ rx = "alive"
    /\ rx' = "dropped"
    /\ chan' = << >>
    /\ UNCHANGED <<owner, running, tpc, thandle, StartUsn, next_usn, tbytes,
                   toffset, treadHi, tstop, sendFailed>>
    /\ UNCHANGED notTailer

\* The consumer receives the oldest change.
Recv ==
    /\ rx = "alive"
    /\ chan # << >>
    /\ chan' = Tail(chan)
    /\ UNCHANGED <<owner, running, rx, tpc, thandle, StartUsn, next_usn, tbytes,
                   toffset, treadHi, tstop, sendFailed>>
    /\ UNCHANGED notTailer

\* CreateFileW on the volume: a handle, or the thread returns.
T_Open ==
    /\ tpc = "open"
    /\ \/ /\ thandle' = "open"
          /\ tpc' = "query"
       \/ /\ thandle' = thandle
          /\ tpc' = "done"
    /\ UNCHANGED <<owner, running, rx, chan, StartUsn, next_usn, tbytes, toffset,
                   treadHi, tstop, sendFailed>>
    /\ UNCHANGED notTailer

\* FSCTL_QUERY_USN_JOURNAL: on failure CloseHandle and return; otherwise
\* read_data.StartUsn = journal_data.NextUsn.
T_Query ==
    /\ tpc = "query"
    /\ \/ /\ thandle' = "closed"
          /\ tpc' = "done"
          /\ UNCHANGED StartUsn
       \/ /\ \E u \in Usns : StartUsn' = u
          /\ tpc' = "check"
          /\ UNCHANGED thandle
    /\ UNCHANGED <<owner, running, rx, chan, next_usn, tbytes, toffset, treadHi,
                   tstop, sendFailed>>
    /\ UNCHANGED notTailer

\* The condition of the tail loop is evaluated.
T_Check ==
    /\ tpc = "check"
    /\ tpc' = IF LoopCondition THEN "read" ELSE "close"
    /\ UNCHANGED <<owner, running, rx, chan, thandle, StartUsn, next_usn, tbytes,
                   toffset, treadHi, tstop, sendFailed>>
    /\ UNCHANGED notTailer

\* FSCTL_READ_USN_JOURNAL fails or returns at most 8 bytes: sleep and continue.
\* (bytes_returned is not looked at again before the next IOCTL overwrites it.)
T_ReadRetry ==
    /\ tpc = "read"
    /\ \E b \in TailBytesReturned, is_err \in BOOLEAN : is_err \/ b <= 8
    /\ tpc' = "sleep"
    /\ UNCHANGED <<owner, running, rx, chan, thandle, StartUsn, next_usn, tbytes,
                   toffset, treadHi, tstop, sendFailed>>
    /\ UNCHANGED notTailer

\* thread::sleep(100 ms) returns; continue.
T_Sleep ==
    /\ tpc = "sleep"
    /\ tpc' = "check"
    /\ UNCHANGED <<owner, running, rx, chan, thandle, StartUsn, next_usn, tbytes,
                   toffset, treadHi, tstop, sendFailed>>
    /\ UNCHANGED notTailer

\* FSCTL_READ_USN_JOURNAL returns more than 8 bytes: the cursor is read from
\* bytes 0..8 and the record loop starts at offset 8.
T_ReadOk ==
    /\ tpc = "read"
    /\ \E b \in TailBytesReturned :
        /\ b > 8
        /\ tbytes' = b
    /\ \E u \in Usns : next_usn' = u
    /\ treadHi' = 8
    /\ toffset' = 8
    /\ tstop' = "none"
    /\ tpc' = "parse"
    /\ UNCHANGED <<owner, running, rx, chan, thandle, StartUsn, sendFailed>>
    /\ UNCHANGED notTailer

\* while offset < bytes_returned: the condition is false.
T_ParseEnd ==
    /\ tpc = "parse"
    /\ ~(toffset < tbytes)
    /\ tstop' = "end"
    /\ tpc' = "advance"
    /\ UNCHANGED <<owner, running, rx, chan, thandle, StartUsn, next_usn, tbytes,
                   toffset, treadHi, sendFailed>>
    /\ UNCHANGED notTailer

\* if offset + size_of::<UsnRecord>() > bytes_returned { break; }
T_ParseShort ==
    /\ tpc = "parse"
    /\ toffset < tbytes
    /\ toffset + UsnRecordSize > tbytes
    /\ tstop' = "short"
    /\ tpc' = "advance"
    /\ UNCHANGED <<owner, running, rx, chan, thandle, StartUsn, next_usn, tbytes,
                   toffset, treadHi, sendFailed>>
    /\ UNCHANGED notTailer

\* The tailer's test before it reads the file name.
TailNameInBounds(name_offset, FileNameLength) ==
    name_offset + FileNameLength <= tbytes

\* The UsnChange of the record at toffset. (The model names a change by the
\* place of its record; path, change_type and is_directory are functions of
\* the record.)
Change(name) == [at |-> toffset, name |-> name]

\* One iteration of the record loop on a record whose header fits: the header
\* is read at offset; RecordLength == 0 breaks; the name is read and the change
\* sent when the name lies below bytes_returned; a failed send breaks;
\* otherwise offset += RecordLength.
T_ParseRecord(RecordLength, FileNameOffset, FileNameLength) ==
    /\ tpc = "parse"
    /\ toffset < tbytes
    /\ toffset + UsnRecordSize <= tbytes
    /\ LET name_offset == toffset + FileNameOffset
           name_len    == FileNameLength \div 2
           hdrHi       == Max2(treadHi, toffset + UsnRecordSize)
           sends       == /\ ~ZeroLength(RecordLength)
                          /\ TailNameInBounds(name_offset, FileNameLength)
       IN
        /\ (sends /\ rx = "alive") => Len(chan) < MaxChan
        /\ IF ZeroLength(RecordLength)
           THEN /\ treadHi' = hdrHi
                /\ tstop' = "zero"
                /\ tpc' = "advance"
                /\ UNCHANGED <<chan, toffset, sendFailed>>
           ELSE IF ~sends
           THEN /\ treadHi' = hdrHi
                /\ toffset' = NextOffset(toffset, RecordLength)
                /\ UNCHANGED <<chan, tstop, tpc, sendFailed>>
           ELSE /\ treadHi' = IF name_len > 0
                              THEN Max2(hdrHi, name_offset + 2 * name_len)
                              ELSE hdrHi
                /\ IF rx = "alive"
                   THEN /\ chan' = Append(chan, Change(IF name_len > 0 THEN "a" ELSE ""))
                        /\ toffset' = NextOffset(toffset, RecordLength)
                        /\ UNCHANGED <<tstop, tpc, sendFailed>>
                   ELSE /\ sendFailed' = TRUE
                        /\ tstop' = "sendfail"
                        /\ tpc' = "advance"
                        /\ UNCHANGED <<chan, toffset>>
    /\ UNCHANGED <<owner, running, rx, thandle, StartUsn, next_usn, tbytes>>
    /\ UNCHANGED notTailer

\* An end of the iteration that leaves read_data.StartUsn as it was.
T_AdvanceKept ==
    /\ tpc = "advance"
    /\ tpc' = "check"
    /\ next_usn' = 0
    /\ tbytes' = 0
    /\ toffset' = 0
    /\ treadHi' = 0
    /\ tstop' = "none"
    /\ UNCHANGED <<owner, running, rx, chan, thandle, StartUsn, sendFailed>>
    /\ UNCHANGED notTailer

\* read_data.StartUsn = next_usn; the loop condition is evaluated next. The
\* locals of the iteration (next_usn, offset) go out of scope, and the model
\* forgets them and bytes_returned, which the next IOCTL overwrites.
T_Advance ==
    /\ tpc = "advance"
    /\ StartUsn' = next_usn
    /\ tpc' = "check"
    /\ next_usn' = 0
    /\ tbytes' = 0
    /\ toffset' = 0
    /\ treadHi' = 0
    /\ tstop' = "none"
    /\ UNCHANGED <<owner, running, rx, chan, thandle, sendFailed>>
    /\ UNCHANGED notTailer

\* After the loop: CloseHandle(handle); the thread ends.
T_Close ==
    /\ tpc = "close"
    /\ thandle' = "closed"
    /\ tpc' = "done"
    /\ UNCHANGED <<owner, running, rx, chan, StartUsn, next_usn, tbytes, toffset,
                   treadHi, tstop, sendFailed>>
    /\ UNCHANGED notTailer

\* The steps of the spawned thread.
ThreadStep ==
    \/ T_Open
    \/ T_Query
    \/ T_Check
    \/ T_ReadRetry
    \/ T_Sleep
    \/ T_ReadOk
    \/ T_ParseEnd
    \/ T_ParseShort
    \/ \E l \in RecordLengths, o \in FileNameOffsets, n \in FileNameLengths :
         T_ParseRecord(l, o, n)
    \/ T_Advance
    \/ T_Close

TailerNext ==
    \/ StartMonitoring
    \/ Stop
    \/ DropOwner
    \/ DropReceiver
    \/ Recv
    \/ ThreadStep


(***************************************************************************)
(*                 VOLUME ENUMERATOR (MftReader::scan_volume)              *)
(***************************************************************************)

\* How many (file_ref, parent_ref, entry) tuples the model lets one enumeration
\* collect: once entries holds this many, the volume reports no further record
\* with a name.
MaxRecords == 2

\* What the enumeration IOCTL may report in bytes_returned.
MftBytesReturned == {0, 5, 8, 40, 80, 152}

\* What the bytes of a record header may hold.
MftRecordLengths == {0, 72, 200, 70000}

MftFileNameOffsets == {60, 64}

MftFileNameLengths == {0, 2, 6, 100}

\* FileAttributes values: none, and DIRECTORY | HIDDEN | SYSTEM.
FileAttributeValues == {0, 22}

\* The decoded names of name_len UTF-16 units (String::from_utf16_lossy).
DecodeNames(name_len) == {n \in Names : Len(n) = name_len}

\* A 64-bit file reference: a 16-bit sequence number above a 48-bit record number.
\* The model's records carry the sequence number 1.
RawRefs(lows) == [seq : {1}, low : lows]

\* reference & 0x0000FFFFFFFFFFFF
MaskSeq(raw) == raw.low

\* (attributes & bit) != 0, for a bit that is a power of two
HasBit(attributes, bit) == (attributes \div bit) % 2 = 1

\* char::to_lowercase on the characters of the model
LowerChar(c) == CASE c = "A" -> "a"
                  [] c = "C" -> "c"
                  [] c = "D" -> "d"
                  [] c = "T" -> "t"
                  [] c = "U" -> "u"
                  [] c = "W" -> "w"
                  [] OTHER -> c

\* str::to_lowercase
ToLowercase(str) == [i \in 1 .. Len(str) |-> LowerChar(str[i])]

\* name.rsplit('.').next(): what follows the last '.', the whole name without one.
RsplitDotNext(name) ==
    LET dots == {i \in 1 .. Len(name) : name[i] = "."} IN
    IF dots = {} THEN name
    ELSE LET last == CHOOSE i \in dots : \A j \in dots : j <= i
         IN SubSeq(name, last + 1, Len(name))

None == [some |-> FALSE, val |-> << >>]

Some(v) == [some |-> TRUE, val |-> v]

\* let extension = if !is_dir { name.rsplit('.').next().map(|s| s.to_lowercase()) } else { None }
MftExtension(name, is_dir) ==
    IF ~is_dir THEN Some(ToLowercase(RsplitDotNext(name))) ELSE None

\* The FileEntry pushed for a record; path and parent are filled in later.
PartialEntry(name, attributes) ==
    [path        |-> << >>,
     name        |-> name,
     extension   |-> MftExtension(name, HasBit(attributes, 16)),
     size        |-> 0,
     is_dir      |-> HasBit(attributes, 16),
     is_hidden   |-> HasBit(attributes, 2),
     is_system   |-> HasBit(attributes, 4),
     parent      |-> << >>,
     drive       |-> "D"]

\* CreateFileW on the volume: a handle, or Err(PermissionDenied).
M_Open ==
    /\ mpc = "start"
    /\ \/ /\ mhandle' = "open"
          /\ mpc' = "probe"
          /\ UNCHANGED mresult
       \/ /\ mresult' = "PermissionDenied"
          /\ mpc' = "done"
          /\ UNCHANGED mhandle
    /\ UNCHANGED <<mvolume, start_file_reference, mbytes, moffset, mreadHi, mstop, mrecord,
                   mentries, midx, mpath, final_entries>>
    /\ UNCHANGED <<resolveVars, notMft>>

\* FSCTL_GET_NTFS_VOLUME_DATA: on failure CloseHandle and Err(Windows);
\* otherwise enumerate_usn_data starts with empty entries and file_refs.
M_Probe ==
    /\ mpc = "probe"
    /\ \/ /\ mhandle' = "closed"
          /\ mresult' = "Windows"
          /\ mpc' = "done"
       \/ /\ mpc' = "ioctl"
          /\ UNCHANGED <<mvolume, mhandle, mresult>>
    /\ UNCHANGED <<mvolume, start_file_reference, mbytes, moffset, mreadHi, mstop, mrecord,
                   mentries, midx, mpath, final_entries>>
    /\ UNCHANGED <<resolveVars, notMft>>

\* FSCTL_ENUM_USN_DATA: result.is_err() || bytes_returned == 0 ends the loop;
\* then file_refs.insert(root_ref, (format!("{}:", drive), 0)) and the path
\* cache is created.
M_IoctlEnd ==
    /\ mpc = "ioctl"
    /\ mpc' = "resolve"
    /\ file_refs' = [r \in DOMAIN file_refs \cup {root_ref} |->
                        IF r = root_ref THEN <<DriveRoot, 0>> ELSE file_refs[r]]
    /\ midx' = 1
    /\ UNCHANGED <<path_cache, stack, ret, rphase>>
    /\ UNCHANGED <<mvolume, mhandle, mresult, start_file_reference, mbytes, moffset,
                   mreadHi, mstop, mrecord, mentries, mpath, final_entries>>
    /\ UNCHANGED notMft

\* The 8 bytes the cursor is read from: *(buffer.as_ptr() as *const u64).
CursorBytes == 8

\* FSCTL_ENUM_USN_DATA succeeds with bytes_returned != 0: next_usn is read from
\* bytes 0..8 and the record loop starts at offset 8.
M_IoctlOk ==
    /\ mpc = "ioctl"
    /\ \E b \in MftBytesReturned :
        /\ b # 0
        /\ mbytes' = b
    /\ mreadHi' = CursorBytes
    /\ moffset' = 8
    /\ mstop' = "none"
    /\ mrecord' = NoRecord
    /\ mpc' = "parse"
    /\ UNCHANGED <<mvolume, mhandle, mresult, start_file_reference, mentries, midx, mpath,
                   final_entries>>
    /\ UNCHANGED <<resolveVars, notMft>>

\* while offset < bytes_returned: the condition is false.
M_ParseEnd ==
    /\ mpc = "parse"
    /\ ~(moffset < mbytes)
    /\ mstop' = "end"
    /\ mrecord' = NoRecord
    /\ mpc' = "next"
    /\ UNCHANGED <<mvolume, mhandle, mresult, start_file_reference, mbytes, moffset,
                   mreadHi, mentries, midx, mpath, final_entries>>
    /\ UNCHANGED <<resolveVars, notMft>>

\* if offset + size_of::<UsnRecord>() > bytes_returned { break; }
M_ParseShort ==
    /\ mpc = "parse"
    /\ moffset < mbytes
    /\ moffset + UsnRecordSize > mbytes
    /\ mstop' = "short"
    /\ mrecord' = NoRecord
    /\ mpc' = "next"
    /\ UNCHANGED <<mvolume, mhandle, mresult, start_file_reference, mbytes, moffset,
                   mreadHi, mentries, midx, mpath, final_entries>>
    /\ UNCHANGED <<resolveVars, notMft>>

\* The test without its comparison of the name's start with the end of the
\* fixed part of the record.
InvalidNameBoundsNoHeader(offset, RecordLength, FileNameOffset, FileNameLength, bytes_returned) ==
    LET name_offset == offset + FileNameOffset
        name_end    == name_offset + FileNameLength
        record_end  == offset + RecordLength
    IN \/ name_end > record_end
       \/ name_end > bytes_returned

\* The enumerator's test of the file name bounds: TRUE when the record is skipped.
InvalidNameBounds(offset, RecordLength, FileNameOffset, FileNameLength, bytes_returned) ==
    LET name_offset == offset + FileNameOffset
        name_end    == name_offset + FileNameLength
        record_end  == offset + RecordLength
    IN \/ name_offset < offset + UsnRecordSize
       \/ name_end > record_end
       \/ name_end > bytes_returned

\* Where the record loop is after the header at offset was read: "zero" and
\* "length" (RecordLength zero, or larger than the buffer: break), "overrun"
\* (the record extends beyond bytes_returned: warn, break), "skip" (invalid file name
\* bounds: offset += RecordLength, continue), "named" (the name is read, the
\* record is stored), "unnamed" (an empty name: nothing is stored).
RecordCase(offset, RecordLength, FileNameOffset, FileNameLength, bytes_returned) ==
    IF ZeroLength(RecordLength) THEN "zero"
    ELSE IF RecordLength > buffer_size THEN "length"
    ELSE IF offset + RecordLength > bytes_returned THEN "overrun"
    ELSE IF InvalidNameBounds(offset, RecordLength, FileNameOffset, FileNameLength,
                              bytes_returned) THEN "skip"
    ELSE IF /\ FileNameLength \div 2 > 0
            /\ offset + FileNameOffset + FileNameLength <= bytes_returned THEN "named"
    ELSE "unnamed"

\* One iteration of the record loop on a record whose header fits and that
\* stores nothing: the loop breaks, or offset += RecordLength.
M_ParseRecord(RecordLength, FileNameOffset, FileNameLength) ==
    /\ mpc = "parse"
    /\ moffset < mbytes
    /\ moffset + UsnRecordSize <= mbytes
    /\ LET case == RecordCase(moffset, RecordLength, FileNameOffset, FileNameLength, mbytes)
       IN
        /\ case # "named"
        /\ mreadHi' = Max2(mreadHi, moffset + UsnRecordSize)
        /\ IF case \in {"zero", "length", "overrun"}
           THEN /\ mstop' = case
                /\ mpc' = "next"
                /\ mrecord' = NoRecord
                /\ UNCHANGED moffset
           ELSE /\ moffset' = NextOffset(moffset, RecordLength)
                /\ mrecord' = RecordHeader(RecordLength, FileNameOffset, FileNameLength)
                /\ UNCHANGED <<mstop, mpc>>
    /\ UNCHANGED resolveVars
    /\ UNCHANGED <<mvolume, mhandle, mresult, start_file_reference, mbytes, mentries,
                   midx, mpath, final_entries>>
    /\ UNCHANGED notMft

\* One iteration of the record loop on a record with a valid, non-empty name:
\* the name is read, file_refs.insert(masked reference, (name, masked parent)),
\* entries.push, offset += RecordLength.
M_ParseNamed(RecordLength, FileNameOffset, FileNameLength) ==
    /\ mpc = "parse"
    /\ moffset < mbytes
    /\ moffset + UsnRecordSize <= mbytes
    /\ RecordCase(moffset, RecordLength, FileNameOffset, FileNameLength, mbytes) = "named"
    /\ Len(mentries) < MaxRecords
    /\ \E record \in {r \in mvolume : r.name \in DecodeNames(FileNameLength \div 2)} :
       LET name_offset == moffset + FileNameOffset
           name_len    == FileNameLength \div 2
           file_ref    == MaskSeq(record.FileReferenceNumber)
           parent_ref  == MaskSeq(record.ParentFileReferenceNumber)
       IN
        /\ file_refs' = [r \in DOMAIN file_refs \cup {file_ref} |->
                            IF r = file_ref THEN <<record.name, parent_ref>>
                            ELSE file_refs[r]]
        /\ mentries' = Append(mentries,
                          [file_ref   |-> file_ref,
                           parent_ref |-> parent_ref,
                           entry      |-> PartialEntry(record.name, record.FileAttributes)])
        /\ mreadHi' = Max2(Max2(mreadHi, moffset + UsnRecordSize), name_offset + 2 * name_len)
        /\ moffset' = NextOffset(moffset, RecordLength)
        /\ mrecord' = RecordHeader(RecordLength, FileNameOffset, FileNameLength)
    /\ UNCHANGED <<path_cache, stack, ret, rphase>>
    /\ UNCHANGED <<mvolume, mhandle, mresult, start_file_reference, mbytes, mstop, mpc,
                   midx, mpath, final_entries>>
    /\ UNCHANGED notMft

\* enum_data.start_file_reference = next_usn; the next IOCTL follows. next_usn
\* is whatever bytes 0..8 of the buffer held when M_IoctlOk read them: nothing
\* else looks at it, so the model draws its value here. The locals of the
\* iteration go out of scope, and the model forgets them and bytes_returned,
\* which the next IOCTL overwrites.
M_NextBatch ==
    /\ mpc = "next"
    /\ \E next_usn_read \in Usns : start_file_reference' = next_usn_read
    /\ mpc' = "ioctl"
    /\ mbytes' = 0
    /\ moffset' = 0
    /\ mreadHi' = 0
    /\ mstop' = "none"
    /\ mrecord' = NoRecord
    /\ UNCHANGED <<mvolume, mhandle, mresult, mentries, midx, mpath, final_entries>>
    /\ UNCHANGED <<resolveVars, notMft>>

\* The filter_map closure on the next tuple: build_path(file_ref, ..) is called.
M_ResolvePath ==
    /\ mpc = "resolve"
    /\ midx <= Len(mentries)
    /\ rphase = "idle"
    /\ stack' = <<mentries[midx].file_ref>>
    /\ rphase' = "call"
    /\ mpc' = "path"
    /\ UNCHANGED <<file_refs, path_cache, ret>>
    /\ UNCHANGED <<mvolume, mhandle, mresult, start_file_reference, mbytes, moffset,
                   mreadHi, mstop, mrecord, mentries, midx, mpath, final_entries>>
    /\ UNCHANGED notMft

\* build_path(file_ref) has returned. An empty path: the closure returns None
\* and the tuple is dropped. Otherwise entry.path = path and
\* build_path(parent_ref, ..) is called for entry.parent.
M_ResolveParent ==
    /\ mpc = "path"
    /\ rphase = "idle"
    /\ IF ret = << >>
       THEN /\ midx' = midx + 1
            /\ mpc' = "resolve"
            /\ UNCHANGED <<mpath, stack, rphase>>
       ELSE /\ mpath' = ret
            /\ stack' = <<mentries[midx].parent_ref>>
            /\ rphase' = "call"
            /\ mpc' = "parent"
            /\ UNCHANGED midx
    /\ UNCHANGED <<file_refs, path_cache, ret>>
    /\ UNCHANGED <<mvolume, mhandle, mresult, start_file_reference, mbytes, moffset,
                   mreadHi, mstop, mrecord, mentries, final_entries>>
    /\ UNCHANGED notMft

\* entry.parent = build_path(parent_ref, ..); Some(entry).
M_KeepEntry ==
    /\ mpc = "parent"
    /\ rphase = "idle"
    /\ final_entries' = Append(final_entries,
                          [mentries[midx].entry EXCEPT !.path = mpath, !.parent = ret])
    /\ mpath' = << >>
    /\ midx' = midx + 1
    /\ mpc' = "resolve"
    /\ UNCHANGED resolveVars
    /\ UNCHANGED <<mvolume, mhandle, mresult, start_file_reference, mbytes, moffset,
                   mreadHi, mstop, mrecord, mentries>>
    /\ UNCHANGED notMft

\* Every tuple is resolved: enumerate_usn_data returns Ok(final_entries).
M_Collected ==
    /\ mpc = "resolve"
    /\ midx > Len(mentries)
    /\ mpc' = "close"
    /\ UNCHANGED resolveVars
    /\ UNCHANGED <<mvolume, mhandle, mresult, start_file_reference, mbytes, moffset,
                   mreadHi, mstop, mrecord, mentries, midx, mpath, final_entries>>
    /\ UNCHANGED notMft

\* scan_volume: CloseHandle(handle); Ok(entries).
M_Close ==
    /\ mpc = "close"
    /\ mhandle' = "closed"
    /\ mresult' = "Ok"
    /\ mpc' = "done"
    /\ UNCHANGED resolveVars
    /\ UNCHANGED <<mvolume, start_file_reference, mbytes, moffset, mreadHi, mstop, mrecord,
                   mentries, midx, mpath, final_entries>>
    /\ UNCHANGED notMft

\* The record numbers the records of an enumeration buffer carry, and the
\* record numbers of their parents: 0, the root, each other, an absent one.
RecordRefs == {6, 7}

RecordParents == {0, root_ref, 6, 7, 9}

\* Every record a volume of the model may hold.
VolumeRecords ==
    [FileReferenceNumber       : RawRefs(RecordRefs),
     ParentFileReferenceNumber : RawRefs(RecordParents),
     FileAttributes            : FileAttributeValues,
     name                      : Names]

\* scan_volume is about to be called on a volume that may hold any record.
MftStart(volume) ==
    /\ mvolume = volume
    /\ mpc = "start"
    /\ mhandle = "none"
    /\ mresult = "none"
    /\ start_file_reference = 0
    /\ mbytes = 0
    /\ moffset = 0
    /\ mreadHi = 0
    /\ mstop = "none"
    /\ mrecord = NoRecord
    /\ mentries = << >>
    /\ midx = 0
    /\ mpath = << >>
    /\ final_entries = << >>

MftNext ==
    \/ M_Open
    \/ M_Probe
    \/ M_IoctlEnd
    \/ M_IoctlOk
    \/ M_ParseEnd
    \/ M_ParseShort
    \/ \E l \in MftRecordLengths, o \in MftFileNameOffsets, n \in MftFileNameLengths :
         M_ParseRecord(l, o, n)
    \/ \E l \in MftRecordLengths, o \in MftFileNameOffsets, n \in MftFileNameLengths :
         M_ParseNamed(l, o, n)
    \/ M_NextBatch
    \/ M_ResolvePath
    \/ M_ResolveParent
    \/ M_KeepEntry
    \/ M_Collected
    \/ M_Close
    \/ BuildPathCached
    \/ BuildPathRoot
    \/ BuildPathRecurse
    \/ BuildPathUnknown
    \/ BuildPathReturn


\* C5: once a tx.send has failed (the Receiver is gone) the thread leaves the
\* tail loop: it issues no further read-journal IOCTL, so it is never again
\* about to read, parsing a batch or sleeping before a retry.
C5_FailedSendEndsThread == sendFailed => tpc \notin {"read", "parse", "sleep"}

C7_HandleReleasedAfterDrop ==
    []((owner = "dropped" /\ thandle = "open") => <>(thandle = "closed"))



\* C2: both record parsers stay inside the bytes the IOCTL returned. Every byte
\* read so far in the current buffer (the 8-byte cursor, the record headers,
\* the file names) lies below bytes_returned, and a record loop that has
\* stopped stands at offset = bytes_returned or at the start of a record that
\* failed validation (a header that does not fit, a zero or oversized
\* RecordLength, a record running beyond bytes_returned, a refused send).
C2_ParsersStayInBuffer ==
    /\ (tpc \in {"parse", "advance"}) => treadHi <= tbytes
    /\ (tpc = "advance") =>
          \/ toffset = tbytes
          \/ tstop \in {"short", "zero", "sendfail"}
    /\ (mpc \in {"parse", "next"}) => mreadHi <= mbytes
    /\ (mpc = "next") =>
          \/ moffset = mbytes
          \/ mstop \in {"short", "zero", "length", "overrun"}


(***************************************************************************)
(* search/tantivy_engine.rs: SearchEngine. One index writer behind a       *)
(* parking_lot::Mutex, one reader built with                               *)
(* ReloadPolicy::OnCommitWithDelay. The writer follows tantivy's           *)
(* IndexWriter contract: add_document and delete_all_documents queue       *)
(* operations, commit publishes everything queued since the last commit,   *)
(* and only rollback (which the engine never calls) discards the queue.    *)
(* The reader serves the searcher it loaded last; a background thread      *)
(* reloads it some time after a commit.                                    *)
(***************************************************************************)

\* The threads that share one &SearchEngine.
Callers == {"t1", "t2"}

\* How many index_entries calls an execution makes; batch b is the slice
\* passed to the b-th call.
MaxBatches == 2

\* The number of entries of a batch.
BatchLen == 2

Batches == 1 .. MaxBatches

\* The document index_entries builds from entry i of batch b.
Doc(b, i) == <<b, i>>

DocsOf(b) == {Doc(b, i) : i \in 1 .. BatchLen}

NoLock == "nobody"

\* A writer with nothing queued since its last commit.
EmptyQueue == [delete_all |-> FALSE, adds |-> {}]

\* IndexWriter::add_document(doc) returning Ok: the document is queued.
AddDocument(w, doc) == [w EXCEPT !.adds = w.adds \cup {doc}]

\* IndexWriter::delete_all_documents() returning Ok: every document added so
\* far, committed or queued, is deleted at the next commit.
DeleteAllDocuments(w) == [delete_all |-> TRUE, adds |-> {}]

\* The committed documents after IndexWriter::commit() returns Ok.
Published(docs, w) == (IF w.delete_all THEN {} ELSE docs) \cup w.adds

\* A lock() that does not wait for the holder.
MutexFreeAlways(lock) == TRUE

\* parking_lot::Mutex::lock returns once nobody holds the mutex.
MutexFree(lock) == lock = NoLock

\* The guard returned by self.writer.lock() is dropped when the call returns.
Unlock(t) ==
    /\ wlock' = NoLock
    /\ epc' = [epc EXCEPT ![t] = "idle"]
    /\ ebatch' = [ebatch EXCEPT ![t] = 0]
    /\ eidx' = [eidx EXCEPT ![t] = 0]

\* index_entries: let mut writer = self.writer.lock();
IndexEntriesLock(t) ==
    /\ epc[t] = "idle"
    /\ MutexFree(wlock)
    /\ nbatches < MaxBatches
    /\ wlock' = t
    /\ nbatches' = nbatches + 1
    /\ epc' = [epc EXCEPT ![t] = "add"]
    /\ ebatch' = [ebatch EXCEPT ![t] = nbatches + 1]
    /\ eidx' = [eidx EXCEPT ![t] = 0]
    /\ UNCHANGED <<committed, writer, snapshot, eresult, okSinceClear, searched>>
    /\ cleared' = FALSE
    /\ UNCHANGED stated
    /\ UNCHANGED notSearch

\* One iteration of `for entry in entries`: writer.add_document(doc!(..)).
\* Ok queues the document; Err makes index_entries return Err through `?`,
\* with the documents queued so far left in the writer.
IndexEntriesAdd(t) ==
    /\ epc[t] = "add"
    /\ eidx[t] < BatchLen
    /\ \E is_ok \in BOOLEAN :
        IF is_ok
        THEN /\ writer' = AddDocument(writer, Doc(ebatch[t], eidx[t] + 1))
             /\ eidx' = [eidx EXCEPT ![t] = eidx[t] + 1]
             /\ UNCHANGED <<wlock, epc, ebatch, eresult>>
        ELSE /\ eresult' = [eresult EXCEPT ![ebatch[t]] = "err"]
             /\ Unlock(t)
             /\ UNCHANGED writer
    /\ UNCHANGED <<committed, snapshot, nbatches, okSinceClear, searched>>
    /\ UNCHANGED <<cleared, stated>>
    /\ UNCHANGED notSearch

\* writer.commit() after the loop: Ok publishes the queue and index_entries
\* returns Ok(()); Err makes it return Err, the queue is as it was.
IndexEntriesCommit(t) ==
    /\ epc[t] = "add"
    /\ eidx[t] = BatchLen
    /\ \E is_ok \in BOOLEAN :
        IF is_ok
        THEN /\ committed' = Published(committed, writer)
             /\ writer' = EmptyQueue
             /\ eresult' = [eresult EXCEPT ![ebatch[t]] = "ok"]
             /\ okSinceClear' = okSinceClear \cup {ebatch[t]}
        ELSE /\ eresult' = [eresult EXCEPT ![ebatch[t]] = "err"]
             /\ UNCHANGED <<committed, writer, okSinceClear>>
    /\ Unlock(t)
    /\ UNCHANGED <<snapshot, nbatches, searched>>
    /\ UNCHANGED <<cleared, stated>>
    /\ UNCHANGED notSearch


\* clear: let mut writer = self.writer.lock();
ClearLock(t) ==
    /\ epc[t] = "idle"
    /\ MutexFree(wlock)
    /\ wlock' = t
    /\ epc' = [epc EXCEPT ![t] = "delete"]
    /\ UNCHANGED <<committed, writer, snapshot, ebatch, eidx, nbatches, eresult,
                   okSinceClear, searched>>
    /\ UNCHANGED <<cleared, stated>>
    /\ UNCHANGED notSearch

\* writer.delete_all_documents(): Err makes clear return Err through `?`.
ClearDelete(t) ==
    /\ epc[t] = "delete"
    /\ \E is_ok \in BOOLEAN :
        IF is_ok
        THEN /\ writer' = DeleteAllDocuments(writer)
             /\ epc' = [epc EXCEPT ![t] = "commit"]
             /\ UNCHANGED <<wlock, ebatch, eidx>>
        ELSE /\ Unlock(t)
             /\ UNCHANGED writer
    /\ UNCHANGED <<committed, snapshot, nbatches, eresult, okSinceClear, searched>>
    /\ UNCHANGED <<cleared, stated>>
    /\ UNCHANGED notSearch

\* writer.commit() of clear.
ClearCommit(t) ==
    /\ epc[t] = "commit"
    /\ \E is_ok \in BOOLEAN :
        IF is_ok
        THEN /\ committed' = Published(committed, writer)
             /\ writer' = EmptyQueue
             /\ okSinceClear' = {}
             /\ cleared' = TRUE
        ELSE UNCHANGED <<committed, writer, okSinceClear, cleared>>
    /\ Unlock(t)
    /\ UNCHANGED <<snapshot, nbatches, eresult, searched>>
    /\ UNCHANGED stated
    /\ UNCHANGED notSearch

\* search: let searcher = self.reader.searcher(); the whole query runs against
\* that searcher. The reader is not reloaded by the call. The model keeps the
\* documents of the searcher and which batches index_entries had reported Ok
\* for (since the last clear) when the search was issued.
Search(t) ==
    /\ epc[t] = "idle"
    /\ searched' = [snap |-> snapshot, after |-> okSinceClear, cleared |-> cleared]
    /\ searched' # searched
    /\ UNCHANGED <<committed, writer, snapshot, wlock, epc, ebatch, eidx, nbatches,
                   eresult, okSinceClear>>
    /\ UNCHANGED <<cleared, stated>>
    /\ UNCHANGED notSearch

\* ReloadPolicy::OnCommitWithDelay: the reader's background thread loads a
\* searcher on the committed index some time after a commit.
ReaderReload ==
    /\ snapshot # committed
    /\ snapshot' = committed
    /\ UNCHANGED <<committed, writer, wlock, epc, ebatch, eidx, nbatches, eresult,
                   okSinceClear, searched>>
    /\ UNCHANGED <<cleared, stated>>
    /\ UNCHANGED notSearch

\* stats: self.reader.searcher().num_docs(), on the searcher the reader has
\* loaded.
Stats(t) ==
    /\ epc[t] = "idle"
    /\ stated' = [num_docs |-> Cardinality(snapshot), cleared |-> cleared]
    /\ stated' # stated
    /\ UNCHANGED <<committed, writer, snapshot, wlock, epc, ebatch, eidx, nbatches,
                   eresult, okSinceClear, searched, cleared>>
    /\ UNCHANGED notSearch

\* SearchEngine::new on a fresh index directory.
SearchIdle ==
    /\ committed = {}
    /\ writer = EmptyQueue
    /\ snapshot = {}
    /\ wlock = NoLock
    /\ epc = [t \in Callers |-> "idle"]
    /\ ebatch = [t \in Callers |-> 0]
    /\ eidx = [t \in Callers |-> 0]
    /\ nbatches = 0
    /\ eresult = [b \in Batches |-> "none"]
    /\ okSinceClear = {}
    /\ searched = [snap |-> {}, after |-> {}, cleared |-> FALSE]
    /\ cleared = FALSE
    /\ stated = [num_docs |-> 0, cleared |-> FALSE]

SearchNext ==
    \/ \E t \in Callers : IndexEntriesLock(t)
    \/ \E t \in Callers : IndexEntriesAdd(t)
    \/ \E t \in Callers : IndexEntriesCommit(t)
    \/ \E t \in Callers : ClearLock(t)
    \/ \E t \in Callers : ClearDelete(t)
    \/ \E t \in Callers : ClearCommit(t)
    \/ \E t \in Callers : Search(t)
    \/ \E t \in Callers : Stats(t)
    \/ ReaderReload

\* C3: index_entries is all-or-nothing per batch. Of the documents of a batch,
\* the committed index and the reader's searcher hold all or none, and they
\* hold none of a batch whose index_entries call returned an error, also
\* after later commits of index_entries or clear.
C3_BatchAllOrNothing ==
    \A b \in Batches : \A view \in {committed, snapshot} :
        /\ view \cap DocsOf(b) \in {{}, DocsOf(b)}
        /\ (eresult[b] = "err") => (view \cap DocsOf(b) = {})

\* C4: read-your-writes. A search issued after index_entries(B) returned Ok
\* (and before a later clear) runs against a searcher that holds every
\* document of B.
C4_SearchSeesCommitted ==
    \A b \in searched.after : DocsOf(b) \subseteq searched.snap


(***************************************************************************)
(* indexer/mod.rs: FastIndexer::should_include, the inclusion policy.      *)
(* Strings are sequences of characters, as everywhere in this module.      *)
(***************************************************************************)

\* str::contains(pat): pat occurs in s as a contiguous run of characters.
Contains(str, pat) ==
    \E i \in 0 .. Len(str) :
        /\ i + Len(pat) <= Len(str)
        /\ SubSeq(str, i + 1, i + Len(pat)) = pat

\* char::to_ascii_lowercase on the characters of the model
AsciiLower(c) == CASE c = "A" -> "a"
                   [] c = "C" -> "c"
                   [] c = "D" -> "d"
                   [] c = "T" -> "t"
                   [] c = "U" -> "u"
                   [] c = "W" -> "w"
                   [] OTHER -> c

\* A comparison of extensions that is case sensitive.
EqExact(a, b) == a = b

\* str::eq_ignore_ascii_case
EqIgnoreAsciiCase(a, b) ==
    /\ Len(a) = Len(b)
    /\ \A i \in 1 .. Len(a) : AsciiLower(a[i]) = AsciiLower(b[i])

\* A policy that rejects the hidden entries when include_hidden is set.
should_include_inverted(config, entry) ==
    ~(config.include_hidden /\ entry.is_hidden)

\* fn should_include(&self, entry: &FileEntry) -> bool
should_include(config, entry) ==
    IF ~config.include_hidden /\ entry.is_hidden THEN FALSE
    ELSE IF ~config.include_system /\ entry.is_system THEN FALSE
    ELSE IF \E i \in DOMAIN config.exclude_dirs :
                Contains(entry.path, config.exclude_dirs[i]) THEN FALSE
    ELSE IF config.extensions # << >> /\ ~entry.is_dir
    THEN IF entry.extension.some
         THEN \E i \in DOMAIN config.extensions :
                  EqIgnoreAsciiCase(config.extensions[i], entry.extension.val)
         ELSE FALSE
    ELSE TRUE

\* The paths of the entries the policy is applied to.
PolicyPaths ==
    {<<"C", ":", "\\", "W", "\\", "x">>, <<"C", ":", "\\", "a">>}

\* The extension field of a FileEntry: both producers of entries lowercase it.
PolicyExtensions == {None, Some(<<"t">>), Some(<<"u">>)}

\* The entries the policy is applied to; both producers of entries give a
\* directory no extension.
PolicyEntries ==
    {e \in [path : PolicyPaths, extension : PolicyExtensions, size : {1},
            is_dir : BOOLEAN, is_hidden : BOOLEAN, is_system : BOOLEAN,
            drive : {"C"}] :
        e.is_dir => e.extension = None}

\* IndexConfig, as far as should_include reads it.
PolicyConfigs ==
    [include_hidden : BOOLEAN,
     include_system : BOOLEAN,
     exclude_dirs   : {<< >>, <<(<<"W">>)>>, <<(<<"b">>), (<<"W", "\\">>)>>},
     extensions     : {<< >>, <<(<<"t">>)>>, <<(<<"T">>)>>, <<(<<"x">>), (<<"U">>)>>}]

\* self.should_include(&entry) is called and returns.
ShouldInclude ==
    /\ ppc = "call"
    /\ pverdict' = should_include(pconfig, pentry)
    /\ ppc' = "returned"
    /\ UNCHANGED <<pconfig, pentry, pconfig2, pverdict2>>
    /\ UNCHANGED notPolicy

\* should_include is called on the same entry by an indexer with another
\* configuration.
ShouldIncludeAgain ==
    /\ ppc = "returned"
    /\ \E config \in PolicyConfigs :
        /\ pconfig2' = config
        /\ pverdict2' = should_include(config, pentry)
    /\ ppc' = "compared"
    /\ UNCHANGED <<pconfig, pentry, pverdict>>
    /\ UNCHANGED notPolicy

\* No call of should_include is being followed.
PolicyIdle ==
    /\ ppc = "none"
    /\ pverdict = FALSE
    /\ pconfig = << >>
    /\ pentry = << >>
    /\ pconfig2 = << >>
    /\ pverdict2 = FALSE

PolicyNext ==
    \/ ShouldInclude
    \/ ShouldIncludeAgain

(***************************************************************************)
(* indexer/mod.rs: FastIndexer::index_all. One task per configured drive   *)
(* (par_iter) runs index_drive; the tasks share the DashMap `entries` and  *)
(* three atomic counters. DashMap::insert is atomic per key.               *)
(***************************************************************************)

\* How many entries the source of one drive yields at most.
MaxEntries == 2

\* config.drives: two drives, or one drive listed twice.
IndexDrives == {<<"C", "D">>, <<"C", "C">>}

\* The IndexConfig values index_all runs with.
IndexConfigs ==
    [drives         : IndexDrives,
     use_mft        : BOOLEAN,
     include_hidden : BOOLEAN,
     include_system : {FALSE},
     exclude_dirs   : {<< >>},
     extensions     : {<< >>},
     threads        : {1, 2}]

\* The threads of rayon's global pool, on which par_iter runs the per-drive
\* closures: one per logical CPU of the machine (the model's has two). No
\* pool is built from config.threads, which nothing reads.
RayonThreads == 2

\* The tasks whose index_drive call has started and not yet returned.
RunningTasks == {i \in DOMAIN dpc : dpc[i] \notin {"todo", "done"}}

\* A FileEntry of drive d.
DriveEntry(d, leaf, size, is_dir, is_hidden) ==
    [path |-> <<d, ":", "\\">> \o leaf, extension |-> None, size |-> size,
     is_dir |-> is_dir, is_hidden |-> is_hidden, is_system |-> FALSE, drive |-> d]

\* What a scan or a walk of drive d may yield: a file seen with two sizes and
\* a hidden directory.
DriveEntries(d) ==
    {DriveEntry(d, <<"a">>, 1, FALSE, FALSE),
     DriveEntry(d, <<"a">>, 2, FALSE, FALSE),
     DriveEntry(d, <<"W">>, 0, TRUE, TRUE)}

\* The Vec<FileEntry> values scan_volume may return for drive d.
DriveLists(d) ==
    UNION {[1 .. n -> DriveEntries(d)] : n \in 0 .. MaxEntries}

Tasks == DOMAIN iconfig.drives

\* An insert that keeps what the map holds under the key.
MapInsertKeep(map, key, value) == map \cup {[key |-> key, value |-> value]}

\* DashMap::insert(key, value): the value replaces what the map held under key.
MapInsert(map, key, value) ==
    {kv \in map : kv.key # key} \cup {[key |-> key, value |-> value]}

\* The body both sources run on an entry: if self.should_include(&entry)
\* { counters; entries.insert(entry.path.clone(), entry) }.
Collect(i, entry) ==
    IF should_include(iconfig, entry)
    THEN /\ IF entry.is_dir
            THEN /\ total_dirs' = total_dirs + 1
                 /\ UNCHANGED <<total_files, total_size>>
            ELSE /\ total_files' = total_files + 1
                 /\ total_size' = total_size + entry.size
                 /\ UNCHANGED total_dirs
         /\ entries' = MapInsert(entries, entry.path, entry)
         /\ lastInserted' = [k \in DOMAIN lastInserted \cup {entry.path} |->
                                IF k = entry.path THEN entry ELSE lastInserted[k]]
         /\ accepted' = accepted \cup {[task |-> i, entry |-> entry]}
    ELSE UNCHANGED <<total_files, total_dirs, total_size, entries, lastInserted, accepted>>

\* index_drive(drive, ..) starts: MftReader::scan_volume when config.use_mft,
\* the walker otherwise.
D_Begin(i) ==
    /\ ipc = "drives"
    /\ dpc[i] = "todo"
    /\ Cardinality(RunningTasks) < RayonThreads
    /\ dpc' = [dpc EXCEPT ![i] = IF iconfig.use_mft THEN "scan" ELSE "walk"]
    /\ UNCHANGED <<iconfig, ipc, dscan, dlist, dwalked, entries, total_files, total_dirs,
                   total_size, lastInserted, accepted, iresult>>
    /\ UNCHANGED notIndex

\* scan_volume returns Err: debug!, fall back to index_with_walkdir.
D_ScanErr(i) ==
    /\ dpc[i] = "scan"
    /\ dscan' = [dscan EXCEPT ![i] = "err"]
    /\ dpc' = [dpc EXCEPT ![i] = "walk"]
    /\ UNCHANGED <<iconfig, ipc, dlist, dwalked, entries, total_files, total_dirs,
                   total_size, lastInserted, accepted, iresult>>
    /\ UNCHANGED notIndex

\* scan_volume returns Ok(mft_entries).
D_ScanOk(i) ==
    /\ dpc[i] = "scan"
    /\ \E mft_entries \in DriveLists(iconfig.drives[i]) :
          dlist' = [dlist EXCEPT ![i] = mft_entries]
    /\ dscan' = [dscan EXCEPT ![i] = "ok"]
    /\ dpc' = [dpc EXCEPT ![i] = "mft"]
    /\ UNCHANGED <<iconfig, ipc, dwalked, entries, total_files, total_dirs,
                   total_size, lastInserted, accepted, iresult>>
    /\ UNCHANGED notIndex

\* One iteration of `for entry in mft_entries`.
D_MftEntry(i) ==
    /\ dpc[i] = "mft"
    /\ dlist[i] # << >>
    /\ Collect(i, Head(dlist[i]))
    /\ dlist' = [dlist EXCEPT ![i] = Tail(dlist[i])]
    /\ UNCHANGED <<iconfig, ipc, dpc, dscan, dwalked, iresult>>
    /\ UNCHANGED notIndex

\* An end of the loop over mft_entries that goes on to the walker.
D_MftDoneThenWalk(i) ==
    /\ dpc[i] = "mft"
    /\ dlist[i] = << >>
    /\ dpc' = [dpc EXCEPT ![i] = "walk"]
    /\ UNCHANGED <<iconfig, ipc, dscan, dlist, dwalked, entries, total_files, total_dirs,
                   total_size, lastInserted, accepted, iresult>>
    /\ UNCHANGED notIndex

\* The loop over mft_entries is over: return Ok(count).
D_MftDone(i) ==
    /\ dpc[i] = "mft"
    /\ dlist[i] = << >>
    /\ dpc' = [dpc EXCEPT ![i] = "done"]
    /\ UNCHANGED <<iconfig, ipc, dscan, dlist, dwalked, entries, total_files, total_dirs,
                   total_size, lastInserted, accepted, iresult>>
    /\ UNCHANGED notIndex

\* index_with_walkdir: the walk yields a path it has not yielded before,
\* extract gives its FileEntry, the for_each body runs on it.
D_WalkEntry(i) ==
    /\ dpc[i] = "walk"
    /\ Cardinality(dwalked[i]) < MaxEntries
    /\ \E file_entry \in DriveEntries(iconfig.drives[i]) :
        /\ file_entry.path \notin dwalked[i]
        /\ dwalked' = [dwalked EXCEPT ![i] = dwalked[i] \cup {file_entry.path}]
        /\ Collect(i, file_entry)
    /\ UNCHANGED <<iconfig, ipc, dpc, dscan, dlist, iresult>>
    /\ UNCHANGED notIndex

\* The walk is over (an unreadable root yields nothing): Ok(count).
D_WalkDone(i) ==
    /\ dpc[i] = "walk"
    /\ dpc' = [dpc EXCEPT ![i] = "done"]
    /\ UNCHANGED <<iconfig, ipc, dscan, dlist, dwalked, entries, total_files, total_dirs,
                   total_size, lastInserted, accepted, iresult>>
    /\ UNCHANGED notIndex

\* A drive whose indexing failed: no successful scan and a walk that found
\* nothing.
DriveFailed(i) == dpc[i] = "done" /\ dscan[i] # "ok" /\ dwalked[i] = {}

\* The configured drives without the failed ones.
StatsDrivesSucceeded ==
    LET kept[i \in 0 .. Len(iconfig.drives)] ==
            IF i = 0 THEN << >>
            ELSE IF DriveFailed(i) THEN kept[i - 1]
            ELSE Append(kept[i - 1], iconfig.drives[i])
    IN kept[Len(iconfig.drives)]

\* drives_indexed: self.config.drives.clone()
StatsDrivesIndexed == iconfig.drives

\* for_each has joined every task (each index_drive returned Ok; both arms of
\* the match only log): the stats are read, the values of the map collected,
\* Ok((result, stats)) returned.
IndexAllReturn ==
    /\ ipc = "drives"
    /\ \A i \in Tasks : dpc[i] = "done"
    /\ ipc' = "done"
    /\ iresult' = [ok      |-> TRUE,
                   entries |-> {kv.value : kv \in entries},
                   len     |-> Cardinality(entries),
                   stats   |-> [total_files    |-> total_files,
                                total_dirs     |-> total_dirs,
                                total_size     |-> total_size,
                                drives_indexed |-> StatsDrivesIndexed]]
    /\ UNCHANGED <<iconfig, dpc, dscan, dlist, dwalked, entries, total_files, total_dirs,
                   total_size, lastInserted, accepted>>
    /\ UNCHANGED notIndex

\* FastIndexer::new has run, index_all has not been called.
IndexIdle ==
    /\ iconfig = [drives |-> << >>]
    /\ ipc = "none"
    /\ dpc = << >>
    /\ dscan = << >>
    /\ dlist = << >>
    /\ dwalked = << >>
    /\ entries = {}
    /\ total_files = 0
    /\ total_dirs = 0
    /\ total_size = 0
    /\ lastInserted = << >>
    /\ accepted = {}
    /\ iresult = [ok |-> FALSE]

IndexNext ==
    \/ \E i \in Tasks : D_Begin(i)
    \/ \E i \in Tasks : D_ScanErr(i)
    \/ \E i \in Tasks : D_ScanOk(i)
    \/ \E i \in Tasks : D_MftEntry(i)
    \/ \E i \in Tasks : D_MftDone(i)
    \/ \E i \in Tasks : D_WalkEntry(i)
    \/ \E i \in Tasks : D_WalkDone(i)
    \/ IndexAllReturn

(***************************************************************************)
(* search/tantivy_engine.rs: SearchEngine::search on a loaded searcher.    *)
(* The query is built, the searcher returns the `limit` best-scored        *)
(* matching documents (TopDocs::with_limit), and the loop over them        *)
(* rebuilds a FileEntry from the stored fields and applies the filters.    *)
(* The text fields are indexed with tantivy's default tokenizer: a text is *)
(* split at every character that is not alphanumeric and its tokens are    *)
(* lowercased.                                                             *)
(***************************************************************************)

\* The largest query.limit of the model (TopDocs::with_limit needs limit >= 1).
MaxLimit == 2

\* The entries that may have been indexed.
IndexedEntries ==
    {[path |-> <<"C", ":", "\\", "a", ".", "T">>, name |-> <<"a", ".", "T">>,
      extension |-> Some(<<"t">>), size |-> 1, is_dir |-> FALSE, drive |-> "C"],
     [path |-> <<"C", ":", "\\", "a">>, name |-> <<"a">>,
      extension |-> None, size |-> 0, is_dir |-> TRUE, drive |-> "C"],
     [path |-> <<"D", ":", "\\", "a">>, name |-> <<"a">>,
      extension |-> None, size |-> 2, is_dir |-> FALSE, drive |-> "D"]}

\* Option::unwrap_or_default on an Option<String>
UnwrapOrDefault(opt) == IF opt.some THEN opt.val ELSE << >>

\* The document index_entries adds for an entry: doc!(path, name,
\* extension.unwrap_or_default(), size, is_dir as 1/0, drive.to_string(), ..).
StoredDoc(entry) ==
    [path      |-> entry.path,
     name      |-> entry.name,
     extension |-> UnwrapOrDefault(entry.extension),
     size      |-> entry.size,
     is_dir    |-> IF entry.is_dir THEN 1 ELSE 0,
     drive     |-> <<entry.drive>>]

\* The FileEntry the result loop rebuilds from the stored fields of a document.
EntryOfDoc(doc) ==
    [path      |-> doc.path,
     name      |-> doc.name,
     extension |-> IF doc.extension # << >> THEN Some(doc.extension) ELSE None,
     size      |-> doc.size,
     is_dir    |-> doc.is_dir = 1,
     drive     |-> IF doc.drive # << >> THEN Head(doc.drive) ELSE "C"]

\* The characters a token is made of.
IsAlphanumeric(c) == c \notin {".", ":", "\\", "*", "?"}

\* The tokens of a text field: the maximal alphanumeric runs, lowercased.
Tokens(text) ==
    {ToLowercase(SubSeq(text, i, j)) :
        <<i, j>> \in {r \in (1 .. Len(text)) \X (1 .. Len(text)) :
            /\ r[1] <= r[2]
            /\ \A k \in r[1] .. r[2] : IsAlphanumeric(text[k])
            /\ (r[1] = 1 \/ ~IsAlphanumeric(text[r[1] - 1]))
            /\ (r[2] = Len(text) \/ ~IsAlphanumeric(text[r[2] + 1]))}}

\* SearchType::Exact: TermQuery on Term::from_field_text(field_name, query):
\* the documents one of whose name tokens is the query string as given.
ExactMatches(docs, query) == {d \in docs : query \in Tokens(d.name)}

\* Option<u64>
NoSize == [some |-> FALSE, val |-> 0]

SomeSize(n) == [some |-> TRUE, val |-> n]

\* The query strings of the model.
QueryStrings == {<<"a">>, <<"a", ".", "T">>, <<"t">>}

\* The SearchQuery values of the model.
Queries ==
    [query       : QueryStrings,
     search_type : {"Exact", "Semantic"},
     limit       : 1 .. MaxLimit,
     file_types  : {None, Some(<<(<<"T">>)>>)},
     min_size    : {NoSize, SomeSize(1)},
     max_size    : {NoSize, SomeSize(1)},
     drives      : {None, Some(<<"C">>)},
     dirs_only   : BOOLEAN,
     files_only  : BOOLEAN]

\* The orders in which the documents of a set may be ranked.
Orders(docs) ==
    {r \in [1 .. Cardinality(docs) -> docs] :
        \A i, j \in DOMAIN r : (i # j) => (r[i] # r[j])}

\* What the searcher finds for a query, best score first: for
\* SearchType::Exact the documents ExactMatches gives, for a parsed query
\* whatever the query parser and the index make match.
Rankings(docs, q) ==
    IF q.search_type = "Exact"
    THEN Orders(ExactMatches(docs, q.query))
    ELSE UNION {Orders(m) : m \in SUBSET docs}

\* The score of the i-th of n ranked documents.
Score(n, i) == n - i + 1

Min2(a, b) == IF a <= b THEN a ELSE b

\* searcher.search(&query, &TopDocs::with_limit(limit)): the limit best
\* documents with their scores, best first.
TopDocs(ranked, limit) ==
    [i \in 1 .. Min2(limit, Len(ranked)) |->
        [score |-> Score(Len(ranked), i), doc |-> ranked[i]]]

\* A filter test that lets every entry through.
PassesNoFilter(q, entry) == TRUE

\* The `continue` tests of the result loop: TRUE when none of them skips the entry.
PassesFilters(q, entry) ==
    /\ ~(q.files_only /\ entry.is_dir)
    /\ ~(q.dirs_only /\ ~entry.is_dir)
    /\ q.min_size.some => ~(entry.size < q.min_size.val)
    /\ q.max_size.some => ~(entry.size > q.max_size.val)
    /\ q.file_types.some =>
          /\ entry.extension.some
          /\ \E i \in DOMAIN q.file_types.val :
                EqIgnoreAsciiCase(q.file_types.val[i], entry.extension.val)
    /\ q.drives.some => \E i \in DOMAIN q.drives.val : q.drives.val[i] = entry.drive

\* for (score, doc_address) in top_docs { .. results.push(..) }
FilterLoop(q, top_docs) ==
    LET kept[i \in 0 .. Len(top_docs)] ==
            IF i = 0 THEN << >>
            ELSE IF PassesFilters(q, EntryOfDoc(top_docs[i].doc))
                 THEN Append(kept[i - 1], [entry |-> EntryOfDoc(top_docs[i].doc),
                                           score |-> top_docs[i].score])
                 ELSE kept[i - 1]
    IN kept[Len(top_docs)]

\* The documents of the searcher: one per indexed entry.
SearcherDocs == {StoredDoc(e) : e \in qentries}

\* search up to the collection of top_docs.
Q_TopDocs ==
    /\ qpc = "call"
    /\ \E ranked \in Rankings(SearcherDocs, qquery) :
        /\ qranked' = ranked
        /\ qtop' = TopDocs(ranked, qquery.limit)
    /\ qpc' = "loop"
    /\ UNCHANGED <<qentries, qquery, qresults>>
    /\ UNCHANGED notQuery

\* query_parser.parse_query fails: Err(NexusError::Search("Invalid query")).
Q_InvalidQuery ==
    /\ qpc = "call"
    /\ qquery.search_type # "Exact"
    /\ qpc' = "failed"
    /\ UNCHANGED <<qentries, qquery, qranked, qtop, qresults>>
    /\ UNCHANGED notQuery

\* The result loop and Ok(results).
Q_Return ==
    /\ qpc = "loop"
    /\ qresults' = FilterLoop(qquery, qtop)
    /\ qpc' = "returned"
    /\ UNCHANGED <<qentries, qquery, qranked, qtop>>
    /\ UNCHANGED notQuery

\* No search call is being followed.
QueryIdle ==
    /\ qpc = "none"
    /\ qentries = {}
    /\ qquery = << >>
    /\ qranked = << >>
    /\ qtop = << >>
    /\ qresults = << >>

QueryNext ==
    \/ Q_TopDocs
    \/ Q_InvalidQuery
    \/ Q_Return


(***************************************************************************)
(* reason_to_change_type (usn_journal.rs 267-297): the USN reason flags of  *)
(* a record become a ChangeType by an if / else-if chain of bit tests.      *)
(***************************************************************************)

USN_REASON_FILE_CREATE == 256
USN_REASON_FILE_DELETE == 512
USN_REASON_DATA_OVERWRITE == 1
USN_REASON_DATA_EXTEND == 2
USN_REASON_DATA_TRUNCATION == 4
USN_REASON_RENAME_OLD_NAME == 4096
USN_REASON_RENAME_NEW_NAME == 8192
USN_REASON_SECURITY_CHANGE == 2048

\* a & b on unsigned integers, bit by bit.
RECURSIVE BitAnd(_, _)
BitAnd(a, b) ==
    IF a = 0 \/ b = 0 THEN 0
    ELSE (a % 2) * (b % 2) + 2 * BitAnd(a \div 2, b \div 2)

\* a | b on unsigned integers, bit by bit.
RECURSIVE BitOr(_, _)
BitOr(a, b) ==
    IF a = 0 THEN b
    ELSE IF b = 0 THEN a
    ELSE (IF a % 2 = 1 \/ b % 2 = 1 THEN 1 ELSE 0) + 2 * BitOr(a \div 2, b \div 2)

\* The chain with its first two tests exchanged.
reason_to_change_type_delete_first(reason) ==
    IF BitAnd(reason, USN_REASON_FILE_DELETE) # 0 THEN
        [type |-> "Deleted"]
    ELSE IF BitAnd(reason, USN_REASON_FILE_CREATE) # 0 THEN
        [type |-> "Created"]
    ELSE IF BitAnd(reason, BitOr(BitOr(USN_REASON_DATA_OVERWRITE,
                                       USN_REASON_DATA_EXTEND),
                                 USN_REASON_DATA_TRUNCATION)) # 0 THEN
        [type |-> "Modified"]
    ELSE IF BitAnd(reason, BitOr(USN_REASON_RENAME_OLD_NAME,
                                 USN_REASON_RENAME_NEW_NAME)) # 0 THEN
        [type |-> "Renamed", old_name |-> << >>]
    ELSE IF BitAnd(reason, USN_REASON_SECURITY_CHANGE) # 0 THEN
        [type |-> "SecurityChange"]
    ELSE
        [type |-> "Unknown"]

reason_to_change_type(reason) ==
    IF BitAnd(reason, USN_REASON_FILE_CREATE) # 0 THEN
        [type |-> "Created"]
    ELSE IF BitAnd(reason, USN_REASON_FILE_DELETE) # 0 THEN
        [type |-> "Deleted"]
    ELSE IF BitAnd(reason, BitOr(BitOr(USN_REASON_DATA_OVERWRITE,
                                       USN_REASON_DATA_EXTEND),
                                 USN_REASON_DATA_TRUNCATION)) # 0 THEN
        [type |-> "Modified"]
    ELSE IF BitAnd(reason, BitOr(USN_REASON_RENAME_OLD_NAME,
                                 USN_REASON_RENAME_NEW_NAME)) # 0 THEN
        [type |-> "Renamed", old_name |-> << >>]
    ELSE IF BitAnd(reason, USN_REASON_SECURITY_CHANGE) # 0 THEN
        [type |-> "SecurityChange"]
    ELSE
        [type |-> "Unknown"]

\* The flag bits a reason value is assembled from: the eight the function
\* tests, and two it does not (USN_REASON_NAMED_DATA_OVERWRITE 0x10,
\* USN_REASON_STREAM_CHANGE 0x200000).
ReasonBits == {1, 2, 4, 16, 256, 512, 2048, 4096, 8192, 2097152}

RECURSIVE SumOf(_)
SumOf(S) ==
    IF S = {} THEN 0
    ELSE LET x == CHOOSE x \in S : TRUE IN x + SumOf(S \ {x})

ReasonValues == {SumOf(S) : S \in SUBSET ReasonBits}

NoChange == [type |-> "none"]

\* let change_type = reason_to_change_type(record.Reason);
ReasonToChangeType ==
    /\ rpc = "call"
    /\ rchange' = reason_to_change_type(rreason)
    /\ rpc' = "returned"
    /\ UNCHANGED <<rreason, notReason>>

ReasonIdle ==
    /\ rpc = "returned"
    /\ rreason = 0
    /\ rchange = NoChange

ReasonNext == ReasonToChangeType

(***************************************************************************)
(* glob_to_regex (tantivy_engine.rs 364-383): one pass over the characters  *)
(* of the pattern, appending to the local string regex.                     *)
(***************************************************************************)

MaxGlob == 3

\* '.' | '+' | '(' | ')' | '[' | ']' | '{' | '}' | '^' | '$' | '|' | '\\'
EscapedChars == {".", "+", "(", ")", "[", "]", "{", "}", "^", "$", "|", "\\"}

\* The match of the loop body without its escaping arm.
GlobArmUnescaped(c) ==
    IF c = "*" THEN <<".", "*">>
    ELSE IF c = "?" THEN <<".">>
    ELSE <<c>>

\* What one iteration of the loop appends for the character c.
GlobArm(c) ==
    IF c = "*" THEN <<".", "*">>
    ELSE IF c = "?" THEN <<".">>
    ELSE IF c \in EscapedChars THEN <<"\\", c>>
    ELSE <<c>>

\* The characters patterns are drawn from: the two wildcards, the twelve
\* escaped ones, and two that fall to the default arm.
GlobChars == {"*", "?"} \cup EscapedChars \cup {"t", "#"}

\* The patterns of the unit test (tantivy_engine.rs 390-394).
TestGlobs ==
    { <<"*", ".", "t", "x", "t">>,
      <<"f", "i", "l", "e", "?", ".", "t", "x", "t">>,
      <<"t", "e", "s", "t">> }

Globs ==
    TestGlobs \cup UNION {[1..n -> GlobChars] : n \in 0..MaxGlob}

\* let mut regex = String::new(); regex.push('^');
G_Begin ==
    /\ gpc = "call"
    /\ gregex' = <<"^">>
    /\ gnext' = 1
    /\ gpc' = "loop"
    /\ UNCHANGED <<gglob, notGlob>>

\* for c in glob.chars() { match c { ... } }
G_Char ==
    /\ gpc = "loop"
    /\ gnext <= Len(gglob)
    /\ gregex' = gregex \o GlobArm(gglob[gnext])
    /\ gnext' = gnext + 1
    /\ UNCHANGED <<gpc, gglob, notGlob>>

\* regex.push('$'); regex
G_Return ==
    /\ gpc = "loop"
    /\ gnext > Len(gglob)
    /\ gregex' = Append(gregex, "$")
    /\ gpc' = "returned"
    /\ UNCHANGED <<gglob, gnext, notGlob>>

GlobIdle ==
    /\ gpc = "returned"
    /\ gglob = << >>
    /\ gnext = 1
    /\ gregex = <<"^", "$">>

GlobNext == G_Begin \/ G_Char \/ G_Return

(***************************************************************************)
(* The foreign boundary (ffi/mod.rs).  Every function takes the locks of    *)
(* the statics it uses for the whole of what it does with them, so a call   *)
(* is one step; calls of different threads interleave call by call.         *)
(***************************************************************************)

MaxCache == 2

MaxResults == 2

\* The character U+0000.
Nul == "NUL"

NoError == [some |-> FALSE, val |-> ""]

SomeError(msg) == [some |-> TRUE, val |-> msg]

\* fn set_error(msg: String)
set_error(err, msg) == SomeError(msg)

\* The fields of a FileEntry the boundary reads.
FfiEntry(name, path, size, is_dir) ==
    [name |-> name, path |-> path, size |-> size, is_dir |-> is_dir]

FfiEntries ==
    { FfiEntry(<<"a">>, <<"C", ":", "\\", "a">>, 1, FALSE),
      FfiEntry(<<"t", Nul>>, <<"D", ":", "\\", "t", Nul>>, 2, FALSE),
      FfiEntry(<<"A", "t">>, <<"D", ":", "\\", "A", "t">>, 1, TRUE) }

\* The entries of the duplicate-detection example: six files of sizes
\* 100, 100, 200, 200, 200, 300.
DuplicatesExample ==
    [i \in 1 .. 6 |->
        FfiEntry(<<"a">>,
                 <<"C", ":", "\\", "a">> \o [j \in 1 .. i |-> "a"],
                 <<100, 100, 200, 200, 200, 300>>[i], FALSE)]

\* What index_all can return: the values of a map keyed by path, in any order.
Caches ==
    {DuplicatesExample} \cup
    UNION { {c \in [1 .. n -> FfiEntries] :
                \A i, j \in 1 .. n : c[i].path = c[j].path => i = j}
            : n \in 0 .. MaxCache }

\* A *const c_char argument: null, bytes that are not UTF-8, or a string.
NullPtr == [ptr |-> "null", str |-> << >>]

InvalidUtf8 == [ptr |-> "invalid_utf8", str |-> << >>]

StrPtr(str) == [ptr |-> "valid", str |-> str]

SearchQueries == {<<"A">>, <<"T">>}

MinSizes == {0, 101}

NoArg == [query |-> NullPtr, num |-> 0]

\* The FfiSearchResult behind a returned pointer; a null pointer has none.
NullResult == [path |-> << >>, name |-> << >>, size |-> 0, is_dir |-> FALSE]

\* What a call returned: the integer for the functions that return one, the
\* pointer for the others, and whether that is the function's failure value.
IntRet(n, sentinel) ==
    [int |-> n, ptr |-> "none", result |-> NullResult, sentinel |-> sentinel]

PtrRet(result) ==
    [int |-> 0, ptr |-> "valid", result |-> result, sentinel |-> FALSE]

NullRet(sentinel) ==
    [int |-> 0, ptr |-> "null", result |-> NullResult, sentinel |-> sentinel]

VoidRet == [int |-> 0, ptr |-> "none", result |-> NullResult, sentinel |-> FALSE]

\* The call that has just returned becomes the previous one.
Returned == [search |-> fop = "nexus_search", sentinel |-> fret.sentinel]

\* str::replace('\0', "_")
ReplaceNul(str) == [i \in 1 .. Len(str) |-> IF str[i] = Nul THEN "_" ELSE str[i]]

\* CString::new(s): Err with the position of the first null byte, else Ok.
CStringNew(str) ==
    LET nuls == {i \in 1 .. Len(str) : str[i] = Nul} IN
    IF nuls = {} THEN [ok |-> TRUE, nul_position |-> 0]
    ELSE [ok |-> FALSE,
          nul_position |-> (CHOOSE i \in nuls : \A j \in nuls : i <= j) - 1]

\* FfiSearchResult::from_entry: the record built, and which of its two
\* conversions called set_error.
from_entry(entry) ==
    LET safe_path == ReplaceNul(entry.path)
        safe_name == ReplaceNul(entry.name)
    IN [result |-> [path |-> IF CStringNew(safe_path).ok THEN safe_path ELSE << >>,
                    name |-> IF CStringNew(safe_name).ok THEN safe_name ELSE << >>,
                    size |-> entry.size,
                    is_dir |-> entry.is_dir],
        path_err |-> ~CStringNew(safe_path).ok,
        name_err |-> ~CStringNew(safe_name).ok]

\* LAST_ERROR after from_entry's calls of set_error, the name's after the path's.
ErrorAfterFromEntry(err, built) ==
    IF built.name_err THEN set_error(err, "Invalid name string contains null byte")
    ELSE IF built.path_err THEN set_error(err, "Invalid path string contains null byte")
    ELSE err

\* iter().filter(p).take(n).cloned().collect() without the take.
FilterAll(cached, query_str, n) ==
    LET RECURSIVE Go(_, _)
        Go(i, acc) ==
            IF i > Len(cached) THEN acc
            ELSE IF Contains(ToLowercase(cached[i].name), query_str)
                 THEN Go(i + 1, Append(acc, cached[i]))
                 ELSE Go(i + 1, acc)
    IN Go(1, << >>)

\* entries.iter().filter(|e| e.name.to_lowercase().contains(&query_str))
\*     .take(max_results as usize).cloned().collect()
FilterTake(cached, query_str, n) ==
    LET RECURSIVE Go(_, _)
        Go(i, acc) ==
            IF i > Len(cached) \/ Len(acc) >= n THEN acc
            ELSE IF Contains(ToLowercase(cached[i].name), query_str)
                 THEN Go(i + 1, Append(acc, cached[i]))
                 ELSE Go(i + 1, acc)
    IN Go(1, << >>)

\* The grouping without the test of is_dir.
SizeGroupsWithDirs(cached, min_size) ==
    LET kept == {i \in 1 .. Len(cached) : cached[i].size >= min_size}
    IN [s \in {cached[i].size : i \in kept} |->
            {i \in kept : cached[i].size = s}]

\* The size_groups of nexus_find_duplicates: size -> the entries pushed.
SizeGroups(cached, min_size) ==
    LET kept == {i \in 1 .. Len(cached) :
                    ~cached[i].is_dir /\ cached[i].size >= min_size}
    IN [s \in {cached[i].size : i \in kept} |->
            {i \in kept : cached[i].size = s}]

\* size_groups.values().filter(|g| g.len() > 1).count()
DupGroups(cached, min_size) ==
    LET size_groups == SizeGroups(cached, min_size)
    IN Cardinality({s \in DOMAIN size_groups : Cardinality(size_groups[s]) > 1})

\* Vec::get that takes any index as the last element's.
VecGetLast(v, index) ==
    IF Len(v) = 0 THEN [some |-> FALSE, at |-> 0]
    ELSE IF index < Len(v) THEN [some |-> TRUE, at |-> index + 1]
    ELSE [some |-> TRUE, at |-> Len(v)]

\* results.get(index as usize): the position of the element, if there is one.
VecGet(v, index) ==
    IF index < Len(v) THEN [some |-> TRUE, at |-> index + 1]
    ELSE [some |-> FALSE, at |-> 0]

\* nexus_index_all(): index_all has no Err return (indexer/mod.rs 92-130), so
\* the Ok arm is the one that runs.
NexusIndexAll ==
    \E cached \in Caches :
        /\ CACHED_ENTRIES' = cached
        /\ fop' = "nexus_index_all"
        /\ farg' = NoArg
        /\ fret' = IntRet(Len(cached), FALSE)
        /\ fprev' = Returned
        /\ UNCHANGED <<LAST_ERROR, SEARCH_RESULTS, flast, notFfi>>

\* nexus_get_last_error()
NexusGetLastError ==
    /\ fop' = "nexus_get_last_error"
    /\ farg' = NoArg
    /\ fret' = IF LAST_ERROR.some THEN PtrRet(NullResult) ELSE NullRet(FALSE)
    /\ fprev' = Returned
    /\ UNCHANGED <<LAST_ERROR, CACHED_ENTRIES, SEARCH_RESULTS, flast, notFfi>>

\* nexus_index_directory(path): -1 for a null or non-UTF-8 path and for a
\* path that does not exist, else the number of entries found.
NexusIndexDirectory ==
    \E path \in {NullPtr, InvalidUtf8, StrPtr(<<"a">>)} :
      \E found \in IF path.ptr = "valid" THEN {"Err", "Ok"} ELSE {"Err"} :
        /\ fop' = "nexus_index_directory"
        /\ farg' = [query |-> path, num |-> 0]
        /\ fret' = IF found = "Err" THEN IntRet(-1, TRUE) ELSE IntRet(1, FALSE)
        /\ fprev' = Returned
        /\ UNCHANGED <<LAST_ERROR, CACHED_ENTRIES, SEARCH_RESULTS, flast, notFfi>>

\* nexus_search(query, max_results)
NexusSearch ==
    \E query \in {NullPtr, InvalidUtf8} \cup {StrPtr(q) : q \in SearchQueries},
       max_results \in 0 .. MaxResults :
        /\ fop' = "nexus_search"
        /\ farg' = [query |-> query, num |-> max_results]
        /\ fprev' = Returned
        /\ IF query.ptr # "valid" THEN
               /\ fret' = IntRet(-1, TRUE)
               /\ UNCHANGED <<SEARCH_RESULTS, flast>>
           ELSE
               LET query_str == ToLowercase(query.str)
                   results == FilterTake(CACHED_ENTRIES, query_str, max_results)
                   count == Len(results)
               IN /\ SEARCH_RESULTS' = results
                  /\ fret' = IntRet(count, FALSE)
                  /\ flast' = [n |-> count, results |-> results]
        /\ UNCHANGED <<LAST_ERROR, CACHED_ENTRIES, notFfi>>

\* nexus_get_search_result(index)
NexusGetSearchResult ==
    \E index \in 0 .. MaxResults :
        LET entry == VecGet(SEARCH_RESULTS, index)
            built == from_entry(SEARCH_RESULTS[entry.at])
        IN /\ fop' = "nexus_get_search_result"
           /\ farg' = [query |-> NullPtr, num |-> index]
           /\ fprev' = Returned
           /\ IF entry.some THEN
                  /\ fret' = PtrRet(built.result)
                  /\ LAST_ERROR' = ErrorAfterFromEntry(LAST_ERROR, built)
              ELSE
                  /\ fret' = NullRet(TRUE)
                  /\ UNCHANGED LAST_ERROR
           /\ UNCHANGED <<CACHED_ENTRIES, SEARCH_RESULTS, flast, notFfi>>

\* nexus_clear_search_results()
NexusClearSearchResults ==
    /\ SEARCH_RESULTS' = << >>
    /\ fop' = "nexus_clear_search_results"
    /\ farg' = NoArg
    /\ fret' = VoidRet
    /\ fprev' = Returned
    /\ flast' = [n |-> 0, results |-> << >>]
    /\ UNCHANGED <<LAST_ERROR, CACHED_ENTRIES, notFfi>>

\* nexus_hash_file_quick(path): 0 for a null or non-UTF-8 path and when
\* quick_hash gives None, else the hash, which may itself be 0.
NexusHashFileQuick ==
    \E path \in {NullPtr, InvalidUtf8, StrPtr(<<"a">>)} :
      \E hashed \in IF path.ptr = "valid" THEN {"None", "Some"} ELSE {"None"} :
        /\ fop' = "nexus_hash_file_quick"
        /\ farg' = [query |-> path, num |-> 0]
        /\ fret' = IF hashed = "None" THEN IntRet(0, TRUE) ELSE IntRet(1, FALSE)
        /\ fprev' = Returned
        /\ UNCHANGED <<LAST_ERROR, CACHED_ENTRIES, SEARCH_RESULTS, flast, notFfi>>

\* nexus_hash_file_full(path): null for a null or non-UTF-8 path and when
\* full_hash gives None, else the hexadecimal digest.
NexusHashFileFull ==
    \E path \in {NullPtr, InvalidUtf8, StrPtr(<<"a">>)} :
      \E hashed \in IF path.ptr = "valid" THEN {"None", "Some"} ELSE {"None"} :
        /\ fop' = "nexus_hash_file_full"
        /\ farg' = [query |-> path, num |-> 0]
        /\ fret' = IF hashed = "None" THEN NullRet(TRUE) ELSE PtrRet(NullResult)
        /\ fprev' = Returned
        /\ UNCHANGED <<LAST_ERROR, CACHED_ENTRIES, SEARCH_RESULTS, flast, notFfi>>

\* nexus_find_duplicates(min_size)
NexusFindDuplicates ==
    \E min_size \in MinSizes :
        /\ fop' = "nexus_find_duplicates"
        /\ farg' = [query |-> NullPtr, num |-> min_size]
        /\ fret' = IntRet(DupGroups(CACHED_ENTRIES, min_size), FALSE)
        /\ fprev' = Returned
        /\ UNCHANGED <<LAST_ERROR, CACHED_ENTRIES, SEARCH_RESULTS, flast, notFfi>>

\* The statics before the first call.
FfiIdle ==
    /\ LAST_ERROR = NoError
    /\ CACHED_ENTRIES = << >>
    /\ SEARCH_RESULTS = << >>
    /\ fop = "none"
    /\ farg = NoArg
    /\ fret = VoidRet
    /\ fprev = [search |-> FALSE, sentinel |-> FALSE]
    /\ flast = [n |-> 0, results |-> << >>]

FfiNext ==
    \/ NexusIndexAll
    \/ NexusGetLastError
    \/ NexusIndexDirectory
    \/ NexusSearch
    \/ NexusGetSearchResult
    \/ NexusClearSearchResults
    \/ NexusHashFileQuick
    \/ NexusHashFileFull
    \/ NexusFindDuplicates

(***************************************************************************)
(* The tail loop of start_monitoring (usn_journal.rs 163-244) over a        *)
(* journal that keeps FSCTL_READ_USN_JOURNAL's contract: a read returns, in *)
(* journal order, records whose USN is at least StartUsn, and in bytes 0..8 *)
(* the USN that follows the last record returned.  Records are followed by  *)
(* their USN; how the thread ends is followed in the tailer above.          *)
(***************************************************************************)

MaxJournal == 3

NoBuffer == [first |-> 1, last |-> 0]

\* The UsnChange made from a record, and the read that returned the record.
JournalChange(usn, read) == [usn |-> usn, read |-> read]

\* A cursor update that keeps the old position.
NextStartUsnKept(StartUsnNow, next) == StartUsnNow

\* read_data.StartUsn = next_usn;
NextStartUsn(StartUsnNow, next) == next

\* The file system appends a record to the journal.
J_Write ==
    /\ jlen < MaxJournal
    /\ jlen' = jlen + 1
    /\ UNCHANGED <<jpc, jStartUsn, jbuffer, jnext_usn, joffset, jreads, jrx,
                   jchan, jreceived, notOrder>>

\* FSCTL_QUERY_USN_JOURNAL: StartUsn: journal_data.NextUsn
J_Query ==
    /\ jpc = "query"
    /\ jStartUsn' = jlen + 1
    /\ jpc' = "read"
    /\ UNCHANGED <<jlen, jbuffer, jnext_usn, joffset, jreads, jrx, jchan,
                   jreceived, notOrder>>

\* The read fails or returns no record (bytes_returned <= 8): sleep, continue.
J_ReadRetry ==
    /\ jpc = "read"
    /\ jpc' = "sleep"
    /\ UNCHANGED <<jlen, jStartUsn, jbuffer, jnext_usn, joffset, jreads, jrx,
                   jchan, jreceived, notOrder>>

\* thread::sleep(100 ms) returns; continue.
J_Sleep ==
    /\ jpc = "sleep"
    /\ jpc' = "read"
    /\ UNCHANGED <<jlen, jStartUsn, jbuffer, jnext_usn, joffset, jreads, jrx,
                   jchan, jreceived, notOrder>>

\* The read returns the records StartUsn .. last, as many as the buffer
\* takes; next_usn is read from bytes 0..8 and offset starts at 8.
J_ReadOk ==
    /\ jpc = "read"
    /\ \E last \in jStartUsn .. jlen :
        /\ jbuffer' = [first |-> jStartUsn, last |-> last]
        /\ jnext_usn' = last + 1
    /\ joffset' = jStartUsn
    /\ jreads' = jreads + 1
    /\ jpc' = "parse"
    /\ UNCHANGED <<jlen, jStartUsn, jrx, jchan, jreceived, notOrder>>

\* The record's name lies below bytes_returned: the change is sent; a failed
\* send breaks out of the record loop.
J_Send ==
    /\ jpc = "parse"
    /\ joffset <= jbuffer.last
    /\ IF jrx = "alive"
       THEN /\ jchan' = Append(jchan, JournalChange(joffset, jreads))
            /\ joffset' = joffset + 1
            /\ UNCHANGED jpc
       ELSE /\ jpc' = "advance"
            /\ UNCHANGED <<jchan, joffset>>
    /\ UNCHANGED <<jlen, jStartUsn, jbuffer, jnext_usn, jreads, jrx, jreceived,
                   notOrder>>

\* The record's name does not lie below bytes_returned: no change is made;
\* offset += RecordLength.
J_Skip ==
    /\ jpc = "parse"
    /\ joffset <= jbuffer.last
    /\ joffset' = joffset + 1
    /\ UNCHANGED <<jlen, jpc, jStartUsn, jbuffer, jnext_usn, jreads, jrx, jchan,
                   jreceived, notOrder>>

\* The record loop ends: at the end of the buffer, or by one of its breaks
\* (a header that does not fit, RecordLength == 0).
J_ParseEnd ==
    /\ jpc = "parse"
    /\ jpc' = "advance"
    /\ UNCHANGED <<jlen, jStartUsn, jbuffer, jnext_usn, joffset, jreads, jrx,
                   jchan, jreceived, notOrder>>

\* read_data.StartUsn = next_usn;
J_Advance ==
    /\ jpc = "advance"
    /\ jStartUsn' = NextStartUsn(jStartUsn, jnext_usn)
    /\ jbuffer' = NoBuffer
    /\ jpc' = "read"
    /\ UNCHANGED <<jlen, jnext_usn, joffset, jreads, jrx, jchan, jreceived,
                   notOrder>>

\* The consumer receives the oldest change.
J_Recv ==
    /\ jrx = "alive"
    /\ jchan # << >>
    /\ jreceived' = Append(jreceived, Head(jchan))
    /\ jchan' = Tail(jchan)
    /\ UNCHANGED <<jlen, jpc, jStartUsn, jbuffer, jnext_usn, joffset, jreads,
                   jrx, notOrder>>

\* The consumer drops the Receiver.
J_DropReceiver ==
    /\ jrx = "alive"
    /\ jrx' = "dropped"
    /\ jchan' = << >>
    /\ UNCHANGED <<jlen, jpc, jStartUsn, jbuffer, jnext_usn, joffset, jreads,
                   jreceived, notOrder>>

OrderIdle ==
    /\ jlen = 0
    /\ jpc = "none"
    /\ jStartUsn = 0
    /\ jbuffer = NoBuffer
    /\ jnext_usn = 0
    /\ joffset = 0
    /\ jreads = 0
    /\ jrx = "none"
    /\ jchan = << >>
    /\ jreceived = << >>

OrderNext ==
    \/ J_Write
    \/ J_Query
    \/ J_ReadRetry
    \/ J_Sleep
    \/ J_ReadOk
    \/ J_Send
    \/ J_Skip
    \/ J_ParseEnd
    \/ J_Advance
    \/ J_Recv
    \/ J_DropReceiver

(***************************************************************************)
(* Host threads calling the foreign boundary concurrently (ffi/mod.rs).    *)
(* The statics are std::sync::Mutex values: lock() blocks while another    *)
(* thread holds the guard, and a guard is dropped at the end of the block  *)
(* that took it. A call is followed from lock to lock.                     *)
(***************************************************************************)

HostThreads == {1, 2}

NoThread == 0

Statics == {"CACHED_ENTRIES", "SEARCH_RESULTS", "LAST_ERROR"}

\* The boundary functions host threads call, with their arguments.
HostCalls ==
    {[op |-> "nexus_index_all", query |-> << >>, num |-> 0],
     [op |-> "nexus_clear_search_results", query |-> << >>, num |-> 0],
     [op |-> "nexus_get_stats", query |-> << >>, num |-> 0],
     [op |-> "nexus_get_last_error", query |-> << >>, num |-> 0]}
    \cup {[op |-> "nexus_search", query |-> q, num |-> MaxResults] : q \in SearchQueries}
    \cup {[op |-> "nexus_get_search_result", query |-> << >>, num |-> i] :
             i \in 0 .. MaxResults - 1}
    \cup {[op |-> "nexus_find_duplicates", query |-> << >>, num |-> 0]}

NoCall == [op |-> "none", query |-> << >>, num |-> 0]

\* What index_all returns to nexus_index_all in these runs: MaxCache entries,
\* the file "a" first and the directory last.
HostCaches ==
    {c \in Caches : Len(c) = MaxCache /\ c[1].name = <<"a">> /\ c[Len(c)].is_dir}

\* A first lock that is SEARCH_RESULTS for every function.
FirstLockResults(op) == "SEARCH_RESULTS"

\* The static a function locks first.
FirstLock(op) ==
    IF op \in {"nexus_get_search_result", "nexus_clear_search_results"}
    THEN "SEARCH_RESULTS"
    ELSE IF op = "nexus_get_last_error" THEN "LAST_ERROR"
    ELSE "CACHED_ENTRIES"

\* Every guard of thread t is dropped.
Unlocked(t) == [s \in Statics |-> IF hlock[s] = t THEN NoThread ELSE hlock[s]]

\* The thread returns v from its call.
HostReturn(t, v) ==
    /\ hret' = [hret EXCEPT ![t] = v]
    /\ hcall' = [hcall EXCEPT ![t] = NoCall]
    /\ hpc' = [hpc EXCEPT ![t] = "idle"]
    /\ hlock' = Unlocked(t)

\* A host thread calls a boundary function. (nexus_index_all runs index_all
\* before it takes any lock.)
H_Call(t) ==
    /\ hpc[t] = "idle"
    /\ \E c \in HostCalls : hcall' = [hcall EXCEPT ![t] = c]
    /\ hret' = [hret EXCEPT ![t] = VoidRet]
    /\ hpc' = [hpc EXCEPT ![t] = "enter"]
    /\ UNCHANGED <<hlock, hmine, ffiVars, notHost>>

\* X.lock() on the first static the function uses: the thread waits until no
\* other thread holds the guard.
H_Lock(t) ==
    /\ hpc[t] = "enter"
    /\ hlock[FirstLock(hcall[t].op)] = NoThread
    /\ hlock' = [hlock EXCEPT ![FirstLock(hcall[t].op)] = t]
    /\ hpc' = [hpc EXCEPT ![t] = "locked"]
    /\ UNCHANGED <<hcall, hret, hmine, ffiVars, notHost>>

\* nexus_index_all: *cache = entries; count
H_IndexAll(t) ==
    /\ hpc[t] = "locked"
    /\ hcall[t].op = "nexus_index_all"
    /\ \E cached \in HostCaches :
        /\ CACHED_ENTRIES' = cached
        /\ HostReturn(t, IntRet(Len(cached), FALSE))
    /\ UNCHANGED <<hmine, LAST_ERROR, SEARCH_RESULTS, fop, farg, fret, fprev,
                   flast, notHost>>

\* nexus_search with the guard of CACHED_ENTRIES: results are collected, then
\* SEARCH_RESULTS.lock() is waited for and *search_results = results.
H_SearchStore(t) ==
    /\ hpc[t] = "locked"
    /\ hcall[t].op = "nexus_search"
    /\ hlock["SEARCH_RESULTS"] = NoThread
    /\ hlock' = [hlock EXCEPT !["SEARCH_RESULTS"] = t]
    /\ SEARCH_RESULTS' = FilterTake(CACHED_ENTRIES, ToLowercase(hcall[t].query),
                                    hcall[t].num)
    /\ hpc' = [hpc EXCEPT ![t] = "stored"]
    /\ UNCHANGED <<hcall, hret, hmine, LAST_ERROR, CACHED_ENTRIES, fop, farg, fret,
                   fprev, flast, notHost>>

\* nexus_search: both guards are dropped and count is returned.
H_SearchReturn(t) ==
    /\ hpc[t] = "stored"
    /\ LET results == FilterTake(CACHED_ENTRIES, ToLowercase(hcall[t].query),
                                 hcall[t].num)
       IN /\ HostReturn(t, IntRet(Len(results), FALSE))
          /\ hmine' = [hmine EXCEPT ![t] = results]
    /\ UNCHANGED <<ffiVars, notHost>>

\* nexus_get_search_result: results.get(index), from_entry (whose set_error
\* takes the lock of LAST_ERROR), the pointer or null.
H_GetSearchResult(t) ==
    /\ hpc[t] = "locked"
    /\ hcall[t].op = "nexus_get_search_result"
    /\ LET entry == VecGet(SEARCH_RESULTS, hcall[t].num)
           built == from_entry(SEARCH_RESULTS[entry.at])
       IN IF entry.some
          THEN /\ (built.name_err \/ built.path_err) => hlock["LAST_ERROR"] = NoThread
               /\ LAST_ERROR' = ErrorAfterFromEntry(LAST_ERROR, built)
               /\ HostReturn(t, PtrRet(built.result))
          ELSE /\ HostReturn(t, NullRet(TRUE))
               /\ UNCHANGED LAST_ERROR
    /\ UNCHANGED <<hmine, CACHED_ENTRIES, SEARCH_RESULTS, fop, farg, fret, fprev,
                   flast, notHost>>

\* nexus_clear_search_results: results.clear()
H_ClearSearchResults(t) ==
    /\ hpc[t] = "locked"
    /\ hcall[t].op = "nexus_clear_search_results"
    /\ SEARCH_RESULTS' = << >>
    /\ HostReturn(t, VoidRet)
    /\ hmine' = [hmine EXCEPT ![t] = << >>]
    /\ UNCHANGED <<LAST_ERROR, CACHED_ENTRIES, fop, farg, fret, fprev, flast,
                   notHost>>

\* nexus_find_duplicates: dup_groups
H_FindDuplicates(t) ==
    /\ hpc[t] = "locked"
    /\ hcall[t].op = "nexus_find_duplicates"
    /\ HostReturn(t, IntRet(DupGroups(CACHED_ENTRIES, hcall[t].num), FALSE))
    /\ UNCHANGED <<hmine, ffiVars, notHost>>

\* nexus_get_stats: the model keeps total_files of the FfiIndexStats returned.
H_GetStats(t) ==
    /\ hpc[t] = "locked"
    /\ hcall[t].op = "nexus_get_stats"
    /\ HostReturn(t, IntRet(Cardinality({i \in DOMAIN CACHED_ENTRIES :
                                            ~CACHED_ENTRIES[i].is_dir}), FALSE))
    /\ UNCHANGED <<hmine, ffiVars, notHost>>

\* nexus_get_last_error: the message, or null when there is none.
H_GetLastError(t) ==
    /\ hpc[t] = "locked"
    /\ hcall[t].op = "nexus_get_last_error"
    /\ HostReturn(t, IF LAST_ERROR.some THEN PtrRet(NullResult) ELSE NullRet(FALSE))
    /\ UNCHANGED <<hmine, ffiVars, notHost>>

\* No host thread has called the boundary.
HostIdle ==
    /\ hlock = [s \in Statics |-> NoThread]
    /\ hpc = [t \in HostThreads |-> "idle"]
    /\ hcall = [t \in HostThreads |-> NoCall]
    /\ hret = [t \in HostThreads |-> VoidRet]
    /\ hmine = [t \in HostThreads |-> << >>]

HostStep(t) ==
    \/ H_Call(t)
    \/ H_Lock(t)
    \/ H_IndexAll(t)
    \/ H_SearchStore(t)
    \/ H_SearchReturn(t)
    \/ H_GetSearchResult(t)
    \/ H_ClearSearchResults(t)
    \/ H_FindDuplicates(t)
    \/ H_GetStats(t)
    \/ H_GetLastError(t)

HostNext == \E t \in HostThreads : HostStep(t)

(***************************************************************************)
(* UsnJournal::start_monitoring called more than once on one UsnJournal    *)
(* (usn_journal.rs 47-264). Every call spawns a thread; every thread holds *)
(* a clone of the same Arc<AtomicBool>. What a thread does with a buffer   *)
(* is followed in the tailer above; here a thread is followed from one     *)
(* evaluation of its loop condition to the next.                           *)
(***************************************************************************)

\* How many start_monitoring calls an execution makes.
MaxStarts == 2

TailThreads == 1 .. MaxStarts

\* The threads that have been spawned and have not ended.
LiveThreads == {th \in TailThreads : upc[th] \notin {"none", "done"}}

\* stop: running.store(false)
U_Stop ==
    /\ uflag' = FALSE
    /\ ustopped' = [th \in TailThreads |-> ustopped[th] \/ th \in LiveThreads]
    /\ UNCHANGED <<upc, notRestart>>

\* start_monitoring: channel(), running.store(true), thread::spawn, Ok(rx).
U_StartMonitoring ==
    /\ \E th \in TailThreads :
        /\ upc[th] = "none"
        /\ \A other \in TailThreads : other < th => upc[other] # "none"
        /\ upc' = [upc EXCEPT ![th] = "open"]
    /\ uflag' = TRUE
    /\ UNCHANGED <<ustopped, notRestart>>

\* CreateFileW: a handle, or warn! and return.
U_Open(th) ==
    /\ upc[th] = "open"
    /\ \E next \in {"query", "done"} : upc' = [upc EXCEPT ![th] = next]
    /\ UNCHANGED <<uflag, ustopped, notRestart>>

\* FSCTL_QUERY_USN_JOURNAL: the loop is reached, or CloseHandle and return.
U_Query(th) ==
    /\ upc[th] = "query"
    /\ \E next \in {"check", "done"} : upc' = [upc EXCEPT ![th] = next]
    /\ UNCHANGED <<uflag, ustopped, notRestart>>

\* while running.load(Ordering::SeqCst)
U_Check(th) ==
    /\ upc[th] = "check"
    /\ upc' = [upc EXCEPT ![th] = IF uflag THEN "read" ELSE "close"]
    /\ UNCHANGED <<uflag, ustopped, notRestart>>

\* FSCTL_READ_USN_JOURNAL: an error or at most 8 bytes (sleep), or records.
U_Read(th) ==
    /\ upc[th] = "read"
    /\ \E next \in {"sleep", "parse"} : upc' = [upc EXCEPT ![th] = next]
    /\ UNCHANGED <<uflag, ustopped, notRestart>>

\* thread::sleep(100 ms); continue
U_Sleep(th) ==
    /\ upc[th] = "sleep"
    /\ upc' = [upc EXCEPT ![th] = "check"]
    /\ UNCHANGED <<uflag, ustopped, notRestart>>

\* The record loop and read_data.StartUsn = next_usn.
U_Parse(th) ==
    /\ upc[th] = "parse"
    /\ upc' = [upc EXCEPT ![th] = "check"]
    /\ UNCHANGED <<uflag, ustopped, notRestart>>

\* After the loop: CloseHandle(handle); the closure returns.
U_Close(th) ==
    /\ upc[th] = "close"
    /\ upc' = [upc EXCEPT ![th] = "done"]
    /\ UNCHANGED <<uflag, ustopped, notRestart>>

\* UsnJournal::new: running is false, nothing is spawned.
RestartIdle ==
    /\ uflag = FALSE
    /\ upc = [th \in TailThreads |-> "none"]
    /\ ustopped = [th \in TailThreads |-> FALSE]

\* The steps of the spawned thread th.
U_ThreadStep(th) ==
    \/ U_Open(th)
    \/ U_Query(th)
    \/ U_Check(th)
    \/ U_Read(th)
    \/ U_Sleep(th)
    \/ U_Parse(th)
    \/ U_Close(th)

RestartNext ==
    \/ U_StartMonitoring
    \/ U_Stop
    \/ \E th \in TailThreads : U_ThreadStep(th)

(***************************************************************************)
(*                           THE SPECIFICATIONS                            *)
(* Each specification runs one component; the state of the others stays    *)
(* as their constructors leave it.                                         *)
(***************************************************************************)

OthersIdle(component) ==
    /\ (component # "resolve") => ResolveIdle
    /\ (component # "tailer") => TailerIdle
    /\ (component # "mft") => MftIdle
    /\ (component # "search") => SearchIdle
    /\ (component # "policy") => PolicyIdle
    /\ (component # "index") => IndexIdle
    /\ (component # "query") => QueryIdle
    /\ (component # "reason") => ReasonIdle
    /\ (component # "glob") => GlobIdle
    /\ (component # "ffi") => FfiIdle
    /\ (component # "order") => OrderIdle
    /\ (component # "host") => HostIdle
    /\ (component # "restart") => RestartIdle

\* build_path is called on any reference table, with an empty cache.
ResolveInit ==
    /\ file_refs \in RefTables
    /\ ResolveStart
    /\ OthersIdle("resolve")

SpecResolve == ResolveInit /\ [][ResolveNext]_vars

TailerInit ==
    /\ TailerIdle
    /\ OthersIdle("tailer")

SpecTailer == TailerInit /\ [][TailerNext]_vars

\* Every IOCTL and every sleep returns and the thread is scheduled: a thread
\* step that stays possible is eventually taken.
FairTailer == TailerInit /\ [][TailerNext]_vars /\ WF_vars(ThreadStep)

MftInit ==
    /\ MftStart(VolumeRecords)
    /\ OthersIdle("mft")

SpecMft == MftInit /\ [][MftNext]_vars

SearchInit ==
    /\ SearchIdle
    /\ OthersIdle("search")

SpecSearch == SearchInit /\ [][SearchNext]_vars


\* should_include is called with any configuration on any entry.
PolicyInit ==
    /\ ppc = "call"
    /\ pverdict = FALSE
    /\ pconfig \in PolicyConfigs
    /\ pentry \in PolicyEntries
    /\ pconfig2 = << >>
    /\ pverdict2 = FALSE
    /\ OthersIdle("policy")

SpecPolicy == PolicyInit /\ [][PolicyNext]_vars

\* pat occurs in str: str is some prefix, then pat, then some suffix.
C10_Occurs(pat, str) ==
    \E before, after \in 0 .. Len(str) :
        /\ before + Len(pat) + after = Len(str)
        /\ \A k \in 1 .. Len(pat) : str[before + k] = pat[k]

\* Letters in lower case.
C10_Fold(str) ==
    [i \in 1 .. Len(str) |->
        CASE str[i] = "T" -> "t" [] str[i] = "U" -> "u" [] str[i] = "W" -> "w"
          [] OTHER -> str[i]]

\* What the four rules give when rule 4 uses the membership test inSet.
C10_Rules(inSet) ==
    /\ pentry.is_hidden => pconfig.include_hidden
    /\ pentry.is_system => pconfig.include_system
    /\ \A i \in DOMAIN pconfig.exclude_dirs :
          ~C10_Occurs(pconfig.exclude_dirs[i], pentry.path)
    /\ (pconfig.extensions # << >> /\ ~pentry.is_dir) =>
          (pentry.extension.some /\ inSet)

\* C10 as amended: should_include(entry) equals the four-rule policy, where
\* rule 4 accepts a file iff some configured extension equals the entry's
\* extension ignoring ASCII case (a file with no extension is rejected,
\* directories bypass the rule).
C10_PolicyIgnoringCase ==
    (ppc = "returned") =>
        (pverdict <=>
            C10_Rules(\E i \in DOMAIN pconfig.extensions :
                          C10_Fold(pconfig.extensions[i])
                              = C10_Fold(pentry.extension.val)))

\* C10 witness: rule 4 decided a call: a file with an extension passed rules
\* 1 to 3 and was accepted through a configured extension of another case.
C10_AcceptedByOtherCase ==
    /\ ppc = "returned"
    /\ pverdict
    /\ ~pentry.is_dir
    /\ pentry.extension = Some(<<"t">>)
    /\ pconfig.extensions = <<(<<"T">>)>>
    /\ pconfig.exclude_dirs # << >>

\* C10 as stated: should_include(entry) equals the four-rule policy, where
\* rule 4 accepts a file iff its lowercase extension is in the configured set.
C10_PolicyLowercaseInSet ==
    (ppc = "returned") =>
        (pverdict <=>
            C10_Rules(\E i \in DOMAIN pconfig.extensions :
                          pconfig.extensions[i] = C10_Fold(pentry.extension.val)))


\* index_all is called: the map is empty, the counters are zero, no per-drive
\* task has started.
IndexInit ==
    /\ iconfig \in IndexConfigs
    /\ ipc = "drives"
    /\ dpc = [i \in Tasks |-> "todo"]
    /\ dscan = [i \in Tasks |-> "no"]
    /\ dlist = [i \in Tasks |-> << >>]
    /\ dwalked = [i \in Tasks |-> {}]
    /\ entries = {}
    /\ total_files = 0
    /\ total_dirs = 0
    /\ total_size = 0
    /\ lastInserted = << >>
    /\ accepted = {}
    /\ iresult = [ok |-> FALSE]
    /\ OthersIdle("index")

SpecIndex == IndexInit /\ [][IndexNext]_vars

\* C8: under any interleaving of the per-drive tasks the shared map holds at
\* most one entry per path, the value stored under a path is the entry of the
\* latest insert under it (whole, keyed by its own path), and the list
\* index_all returns has one element per map entry with pairwise distinct
\* paths.
C8_OneEntryPerPath ==
    /\ \A x, y \in entries : (x.key = y.key) => (x = y)
    /\ {x.key : x \in entries} = DOMAIN lastInserted
    /\ \A x \in entries : x.key = x.value.path /\ x.value = lastInserted[x.key]
    /\ (ipc = "done") =>
          /\ iresult.len = Cardinality(iresult.entries)
          /\ \A a, b \in iresult.entries : (a.path = b.path) => (a = b)

\* C8 witness: index_all has returned after two different tasks inserted
\* different entries under one path.
C8_SamePathFromTwoTasks ==
    /\ ipc = "done"
    /\ \E a, b \in accepted :
          /\ a.task # b.task
          /\ a.entry.path = b.entry.path
          /\ a.entry # b.entry

C11_Strings(list) == {list[i] : i \in DOMAIN list}

\* C11: the inclusion policy is monotone. For every entry, switching
\* include_hidden or include_system from false to true never turns an
\* accepted entry into a rejected one, and adding strings to exclude_dirs
\* never turns a rejected entry into an accepted one.
C11_PolicyMonotone ==
    (ppc = "compared") =>
        /\ (/\ ~pconfig.include_hidden
            /\ pconfig2 = [pconfig EXCEPT !.include_hidden = TRUE]
            /\ pverdict) => pverdict2
        /\ (/\ ~pconfig.include_system
            /\ pconfig2 = [pconfig EXCEPT !.include_system = TRUE]
            /\ pverdict) => pverdict2
        /\ (/\ [pconfig2 EXCEPT !.exclude_dirs = << >>]
                  = [pconfig EXCEPT !.exclude_dirs = << >>]
            /\ C11_Strings(pconfig.exclude_dirs) \subseteq C11_Strings(pconfig2.exclude_dirs)
            /\ ~pverdict) => ~pverdict2

\* C11 witness: a hidden entry was rejected, and the same entry was accepted
\* once include_hidden was switched on.
C11_SwitchedOn ==
    /\ ppc = "compared"
    /\ pentry.is_hidden
    /\ ~pconfig.include_hidden
    /\ pconfig2 = [pconfig EXCEPT !.include_hidden = TRUE]
    /\ ~pverdict
    /\ pverdict2


\* search is called with any query on a searcher that holds the documents of
\* any non-empty set of indexed entries.
QueryInit ==
    /\ qpc = "call"
    /\ qentries \in (SUBSET IndexedEntries) \ {{}}
    /\ qquery \in Queries
    /\ qranked = << >>
    /\ qtop = << >>
    /\ qresults = << >>
    /\ OthersIdle("query")

SpecQuery == QueryInit /\ [][QueryNext]_vars


\* An entry satisfies every filter of the query.
C13_Satisfies(q, e) ==
    /\ q.files_only => ~e.is_dir
    /\ q.dirs_only => e.is_dir
    /\ q.min_size.some => q.min_size.val <= e.size
    /\ q.max_size.some => e.size <= q.max_size.val
    /\ q.file_types.some =>
          /\ e.extension.some
          /\ \E i \in DOMAIN q.file_types.val :
                C10_Fold(q.file_types.val[i]) = C10_Fold(e.extension.val)
    /\ q.drives.some => e.drive \in {q.drives.val[i] : i \in DOMAIN q.drives.val}

\* The matching documents that satisfy the filters, best score first.
C12_Eligible ==
    SelectSeq([i \in DOMAIN qranked |->
                  [entry |-> EntryOfDoc(qranked[i]),
                   score |-> Score(Len(qranked), i)]],
              LAMBDA r : C13_Satisfies(qquery, r.entry))

\* C12: the filters are applied before the limit cut. With k documents that
\* match the query and satisfy all filters, search returns the min(k, limit)
\* best-ranked of them.
C12_FilterBeforeLimit ==
    (qpc = "returned") =>
        qresults = SubSeq(C12_Eligible, 1, Min2(Len(C12_Eligible), qquery.limit))

\* C13: every result satisfies every filter of the query, there are at most
\* limit results, and they are in descending score order.
C13_ResultsFiltered ==
    (qpc = "returned") =>
        /\ \A i \in DOMAIN qresults : C13_Satisfies(qquery, qresults[i].entry)
        /\ Len(qresults) <= qquery.limit
        /\ \A i, j \in DOMAIN qresults :
              (i < j) => (qresults[i].score >= qresults[j].score)

\* C13 witness: a search with a file type filter returned a result after the
\* loop skipped a better-scored document that fails the filters.
C13_SkippedAndKept ==
    /\ qpc = "returned"
    /\ qquery.file_types.some
    /\ qquery.files_only
    /\ Len(qresults) = 1
    /\ Len(qtop) = 2
    /\ qresults[1].score < qtop[1].score

\* C14: index-then-search round trip. For an indexed entry E, an Exact query
\* for E.name with no filters (limit >= 1) returns a result whose path is
\* E.path.
C14_ExactFindsIndexed ==
    (/\ qpc = "returned"
     /\ qquery.search_type = "Exact"
     /\ ~qquery.files_only /\ ~qquery.dirs_only
     /\ ~qquery.min_size.some /\ ~qquery.max_size.some
     /\ ~qquery.file_types.some /\ ~qquery.drives.some) =>
        \A e \in qentries :
            (qquery.query = e.name) =>
                \E i \in DOMAIN qresults : qresults[i].entry.path = e.path


\* C15: after clear() has returned Ok and until the next index_entries, stats
\* reports 0 documents and every search runs on an empty searcher (and so
\* returns an empty list).
C15_EmptyAfterClear ==
    /\ searched.cleared => (searched.snap = {})
    /\ stated.cleared => (stated.num_docs = 0)


\* s is a prefix of t.
C16_IsPrefix(str, of) ==
    /\ Len(str) <= Len(of)
    /\ SubSeq(of, 1, Len(str)) = str

\* C16: every entry emitted by volume enumeration has a non-empty path, and
\* its parent field is a prefix of its path, also when a masked file
\* reference occurs in several records with different names or parents.
C16_ParentPrefixOfPath ==
    \A i \in DOMAIN final_entries :
        /\ final_entries[i].path # << >>
        /\ C16_IsPrefix(final_entries[i].parent, final_entries[i].path)

\* C17: a directory has no extension, and a file's extension is absent or the
\* lowercased part of its name after the last '.'; a file whose name holds
\* no '.' has no extension.
C17_ExtensionAfterLastDot ==
    \A i \in DOMAIN final_entries :
        LET e == final_entries[i]
            dots == {k \in DOMAIN e.name : e.name[k] = "."}
        IN
        /\ e.is_dir => ~e.extension.some
        /\ (~e.is_dir /\ dots = {}) => ~e.extension.some
        /\ (~e.is_dir /\ dots # {} /\ e.extension.some) =>
              \E k \in dots :
                  /\ \A j \in dots : j <= k
                  /\ e.extension.val = C10_Fold(SubSeq(e.name, k + 1, Len(e.name)))

\* C18: every emitted path is volume-absolute (begins with "D:"); an entry
\* whose ancestor chain reaches a reference absent from the table is dropped.
C18_PathsVolumeAbsolute ==
    \A i \in DOMAIN final_entries :
        C16_IsPrefix(DriveRoot, final_entries[i].path)


\* reason_to_change_type is called on any combination of the flag bits.
ReasonInit ==
    /\ rpc = "call"
    /\ rreason \in ReasonValues
    /\ rchange = NoChange
    /\ OthersIdle("reason")

SpecReason == ReasonInit /\ [][ReasonNext]_vars

\* Some bit of the mask is set in the value.
C19_AnyBit(value, mask) == \E b \in mask : (value \div b) % 2 = 1

GlobInit ==
    /\ gpc = "call"
    /\ gglob \in Globs
    /\ gnext = 1
    /\ gregex = << >>
    /\ OthersIdle("glob")

SpecGlob == GlobInit /\ [][GlobNext]_vars

\* The translation the claim gives for one character.
C20_Char(c) ==
    CASE c = "*" -> <<".", "*">>
      [] c = "?" -> <<".">>
      [] c \in {".", "+", "(", ")", "[", "]", "{", "}", "^", "$", "|", "\\"} ->
            <<"\\", c>>
      [] OTHER -> <<c>>

\* The translations of the characters of str, one after the other.
RECURSIVE C20_Translation(_)
C20_Translation(str) ==
    IF str = << >> THEN << >>
    ELSE C20_Char(Head(str)) \o C20_Translation(Tail(str))

\* Every listed character of str preceded by a backslash, the others copied.
RECURSIVE C20_Escape(_)
C20_Escape(str) ==
    IF str = << >> THEN << >>
    ELSE (IF Head(str) \in {".", "+", "(", ")", "[", "]", "{", "}", "^", "$", "|", "\\"}
          THEN <<"\\", Head(str)>> ELSE <<Head(str)>>)
         \o C20_Escape(Tail(str))

FfiInit ==
    /\ FfiIdle
    /\ OthersIdle("ffi")

SpecFfi == FfiInit /\ [][FfiNext]_vars

\* C21: every boundary operation that reports failure through a sentinel
\* (-1, 0 or null) has stored an error message before returning, so that a
\* nexus_get_last_error that follows it returns a non-null message.
C21_SentinelStoresError ==
    /\ fret.sentinel => LAST_ERROR.some
    /\ (fop = "nexus_get_last_error" /\ fprev.sentinel) => fret.ptr = "valid"

\* Some character of str is the null byte.
C22_HasNul(str) == \E i \in DOMAIN str : str[i] = Nul

\* out is str with '_' in the place of every null byte.
C22_Replaced(str, out) ==
    /\ Len(out) = Len(str)
    /\ \A i \in DOMAIN str : out[i] = (IF str[i] = Nul THEN "_" ELSE str[i])

\* C22: when the name or path of the entry asked for contains a null byte,
\* the record nexus_get_search_result returns has every null byte replaced
\* by '_', and an error is recorded, so that nexus_get_last_error afterwards
\* returns a non-null message.
C22_NullByteReplacedAndReported ==
    (fop = "nexus_get_search_result" /\ fret.ptr = "valid") =>
        LET entry == SEARCH_RESULTS[farg.num + 1] IN
        (C22_HasNul(entry.name) \/ C22_HasNul(entry.path)) =>
            /\ C22_Replaced(entry.name, fret.result.name)
            /\ C22_Replaced(entry.path, fret.result.path)
            /\ LAST_ERROR.some

\* Two characters that are the same letter, whatever their case.
C23_SameLetter(a, b) ==
    \/ a = b
    \/ {a, b} \in {{"a", "A"}, {"t", "T"}, {"w", "W"}}

\* q occurs in name when case is ignored.
C23_ContainsIgnoringCase(name, q) ==
    \E start \in 0 .. Len(name) :
        /\ start + Len(q) <= Len(name)
        /\ \A k \in 1 .. Len(q) : C23_SameLetter(name[start + k], q[k])

\* The positions of the cache whose entry matches q.
C23_Matching(cache, q) ==
    {i \in DOMAIN cache : C23_ContainsIgnoringCase(cache[i].name, q)}

\* C23: nexus_search(q, max) returns min(max, m), m being the number of
\* cached entries whose name contains q ignoring case, and replaces the
\* result buffer with exactly the first min(max, m) such entries in cache
\* order; the cached entries are left unchanged.
C23_SearchFirstMatches ==
    [][ (fop' = "nexus_search" /\ fret'.int >= 0) =>
            LET matching == C23_Matching(CACHED_ENTRIES, farg'.query.str)
                m == Cardinality(matching)
                k == IF farg'.num < m THEN farg'.num ELSE m
            IN /\ fret'.int = k
               /\ CACHED_ENTRIES' = CACHED_ENTRIES
               /\ Len(SEARCH_RESULTS') = k
               /\ \A j \in 1 .. k :
                     \E i \in matching :
                         /\ Cardinality({x \in matching : x <= i}) = j
                         /\ SEARCH_RESULTS'[j] = CACHED_ENTRIES[i] ]_vars

\* C23 happens: a search for "A" with max 1 has returned 1 and stored the
\* first of two matching entries, the one named "a".
C23_CutAtMax ==
    /\ fop = "nexus_search"
    /\ farg.query = StrPtr(<<"A">>)
    /\ farg.num = 1
    /\ fret.int = 1
    /\ Cardinality(C23_Matching(CACHED_ENTRIES, <<"A">>)) = 2
    /\ SEARCH_RESULTS = <<CACHED_ENTRIES[1]>>
    /\ CACHED_ENTRIES[1].name = <<"a">>

\* The record the boundary hands out for a stored entry.
C24_IsRecordOf(result, entry) ==
    /\ result.size = entry.size
    /\ result.is_dir = entry.is_dir
    /\ C22_Replaced(entry.name, result.name)
    /\ C22_Replaced(entry.path, result.path)

\* C24: after nexus_search has returned n >= 0 and until the next
\* nexus_search or nexus_clear_search_results, nexus_get_search_result(i)
\* returns the i-th stored result for i < n and null for i >= n; after
\* nexus_clear_search_results it returns null for every index; a
\* nexus_search that returns -1 leaves the result buffer unchanged.
C24_ResultsByIndex ==
    /\ [](fop = "nexus_get_search_result" =>
            IF farg.num < flast.n
            THEN /\ fret.ptr = "valid"
                 /\ C24_IsRecordOf(fret.result, flast.results[farg.num + 1])
            ELSE fret.ptr = "null")
    /\ [][ (fop' = "nexus_search" /\ fret'.int = -1) =>
              SEARCH_RESULTS' = SEARCH_RESULTS ]_vars

\* C24 happens: right after a nexus_search that returned -1, a stored result
\* of the search before it has been handed out.
C24_ReadAfterFailedSearch ==
    /\ fop = "nexus_get_search_result"
    /\ fprev.search
    /\ fprev.sentinel
    /\ farg.num < flast.n
    /\ fret.ptr = "valid"

\* C25: nexus_find_duplicates(min_size) returns the number of distinct sizes
\* shared by at least two cached entries that are files of size >= min_size;
\* directories and smaller files are ignored and the cache is not modified.
\* For file sizes 100, 100, 200, 200, 200, 300 and min_size 0 it returns 2.
C25_CountsSharedSizes ==
    [][ (fop' = "nexus_find_duplicates") =>
            LET files == {i \in DOMAIN CACHED_ENTRIES :
                             /\ ~CACHED_ENTRIES[i].is_dir
                             /\ CACHED_ENTRIES[i].size >= farg'.num}
                shared == {CACHED_ENTRIES[i].size : i \in
                             {i \in files : \E j \in files :
                                 /\ j # i
                                 /\ CACHED_ENTRIES[j].size = CACHED_ENTRIES[i].size}}
            IN /\ fret'.int = Cardinality(shared)
               /\ CACHED_ENTRIES' = CACHED_ENTRIES
               /\ (CACHED_ENTRIES = DuplicatesExample /\ farg'.num = 0) =>
                     fret'.int = 2 ]_vars

\* C25 happens: the call with min_size 0 has returned 2 for the six files of
\* sizes 100, 100, 200, 200, 200, 300.
C25_ExampleCounted ==
    /\ fop = "nexus_find_duplicates"
    /\ farg.num = 0
    /\ CACHED_ENTRIES = DuplicatesExample
    /\ fret.int = 2

\* start_monitoring has spawned the thread and returned the Receiver; the
\* journal holds any number of records already.
OrderInit ==
    /\ jlen \in 0 .. MaxJournal
    /\ jpc = "query"
    /\ jStartUsn = 0
    /\ jbuffer = NoBuffer
    /\ jnext_usn = 0
    /\ joffset = 0
    /\ jreads = 0
    /\ jrx = "alive"
    /\ jchan = << >>
    /\ jreceived = << >>
    /\ OthersIdle("order")

SpecOrder == OrderInit /\ [][OrderNext]_vars

\* C26: the changes a tailer delivers are in journal order: of two delivered
\* records the one that precedes the other in the journal, in an earlier
\* batch or earlier in the same batch, is received first, and no record is
\* delivered twice.
C26_JournalOrder ==
    LET delivered == jreceived \o jchan IN
    \A i, j \in DOMAIN delivered :
        i < j => /\ delivered[i].usn < delivered[j].usn
                 /\ delivered[i].read <= delivered[j].read

\* C26 happens: the receiver has got two records of one batch and then a
\* record of a later batch.
C26_TwoBatchesReceived ==
    /\ Len(jreceived) = 3
    /\ jreceived[1].read = jreceived[2].read
    /\ jreceived[2].read < jreceived[3].read

\* The callers that are inside index_entries or clear.
C27_InWriteSection == {t \in Callers : epc[t] # "idle"}

\* C27: at most one thread at a time is inside a write section of the index:
\* concurrent index_entries and clear calls are serialized, so that the
\* add-document / delete-all steps and the commit of one call are never
\* interleaved with those of another, while search and stats may run at any
\* time.
C27_WritersSerialized ==
    /\ [](/\ Cardinality(C27_InWriteSection) <= 1
          /\ \A t \in C27_InWriteSection : wlock = t)
    /\ [][ (writer' # writer \/ committed' # committed) =>
              /\ wlock \in Callers
              /\ epc[wlock] # "idle"
              /\ \A t \in Callers \ {wlock} : epc'[t] = "idle" /\ epc[t] = "idle" ]_vars
    /\ [][ (wlock \in Callers /\ wlock' \in Callers) => wlock' = wlock ]_vars

\* C27 happens: a clear holds the writer between its delete-all and its
\* commit, after an index_entries call has completed, and a search has run
\* on the documents of that call.
C27_ClearAfterIndex ==
    /\ wlock \in Callers
    /\ epc[wlock] = "commit"
    /\ writer.delete_all
    /\ \E b \in Batches : eresult[b] = "ok"
    /\ searched.snap # {}

\* C28: during index_all the number of per-drive tasks executing at the same
\* time never exceeds the configured threads value.
C28_TasksWithinThreads ==
    (ipc = "drives") => Cardinality(RunningTasks) <= iconfig.threads

\* C29: the tailer validates a record before it emits a change: no UsnChange
\* is emitted for a record with record_start + record_length >
\* bytes_returned, with record_length larger than the buffer, with
\* file_name_offset smaller than the fixed header, or with file_name_offset +
\* file_name_length > record_length.  (A step that sends moves offset by the
\* record's RecordLength; the formula states the first two tests, the
\* name fields of a record not being kept after the step.)
C29_ValidatedBeforeEmit ==
    [][ (Len(chan') > Len(chan)) =>
            /\ toffset' <= tbytes
            /\ toffset' - toffset <= buffer_size ]_vars

\* A volume of three records: a file of the root, a file of that file's
\* record number as its parent, and a file whose parent is absent.
ScanVolume ==
    {[FileReferenceNumber |-> [seq |-> 1, low |-> 6],
      ParentFileReferenceNumber |-> [seq |-> 1, low |-> root_ref],
      FileAttributes |-> 0, name |-> <<"a">>],
     [FileReferenceNumber |-> [seq |-> 1, low |-> 7],
      ParentFileReferenceNumber |-> [seq |-> 1, low |-> 6],
      FileAttributes |-> 0, name |-> <<"a">>],
     [FileReferenceNumber |-> [seq |-> 1, low |-> 7],
      ParentFileReferenceNumber |-> [seq |-> 1, low |-> 9],
      FileAttributes |-> 0, name |-> <<"a">>]}

ScanInit ==
    /\ MftStart(ScanVolume)
    /\ OthersIdle("mft")

SpecScan == ScanInit /\ [][MftNext]_vars

\* The header passes the length checks of the record loop at offset.
C30_PassesLengthChecks(offset, header) ==
    /\ header.RecordLength # 0
    /\ header.RecordLength <= buffer_size
    /\ offset + header.RecordLength <= mbytes

\* The file name the header describes starts inside the fixed part of the
\* record, or ends after the record or after the bytes the IOCTL returned.
C30_NameOutOfBounds(offset, header) ==
    \/ header.FileNameOffset < UsnRecordSize
    \/ header.FileNameOffset + header.FileNameLength > header.RecordLength
    \/ offset + header.FileNameOffset + header.FileNameLength > mbytes

\* C30: an iteration of the record loop over a record that passes the header
\* and length checks but whose file name bounds are invalid inserts nothing
\* into the reference table, pushes no entry, and leaves the loop running at
\* offset + RecordLength, so the records after it in the batch are still read.
C30_InvalidNameSkipped ==
    [][ ( /\ mpc = "parse"
          /\ moffset < mbytes
          /\ moffset + UsnRecordSize <= mbytes
          /\ moffset' # moffset
          /\ C30_PassesLengthChecks(moffset, mrecord')
          /\ C30_NameOutOfBounds(moffset, mrecord') )
        => /\ file_refs' = file_refs
           /\ mentries' = mentries
           /\ moffset' = moffset + mrecord'.RecordLength
           /\ mpc' = "parse"
           /\ mstop' = "none" ]_vars

\* C30 witness: the first record of a batch of two, whose name starts inside
\* the fixed part of the record, was stepped over with nothing stored, and
\* the loop is about to read the record after it.
C30_SkippedFirstOfTwo ==
    /\ mpc = "parse"
    /\ mbytes = 152
    /\ moffset = 80
    /\ mrecord = RecordHeader(72, 60, 2)
    /\ mentries = << >>
    /\ mstop = "none"

\* A run follows one of the two parsers: the tailer while the scan has not
\* begun, the scan while the UsnJournal is as it was constructed.
ParsersNext ==
    \/ MftStart(ScanVolume) /\ TailerNext
    \/ TailerIdle /\ MftNext

\* Both parsers at rest: the tailer of a new UsnJournal, and scan_volume about
\* to be called on the three-record volume.
SpecParsers == ScanInit /\ [][ParsersNext]_vars

\* C31: in both record loops an iteration that reads a header with
\* RecordLength 0 ends the loop for this batch with the offset where it was:
\* the tailer sends nothing and goes on to store the cursor, the enumerator
\* stores nothing and goes on to the next IOCTL; and after a loop has stopped
\* on such a record nothing is sent or stored until the next buffer is read.
C31_ZeroLengthStopsBatch ==
    /\ [][ (\E o \in FileNameOffsets, n \in FileNameLengths : T_ParseRecord(0, o, n))
           => /\ toffset' = toffset
              /\ chan' = chan
              /\ tpc' = "advance" ]_vars
    /\ [][ (\E o \in MftFileNameOffsets, n \in MftFileNameLengths :
                M_ParseRecord(0, o, n) \/ M_ParseNamed(0, o, n))
           => /\ moffset' = moffset
              /\ mentries' = mentries
              /\ file_refs' = file_refs
              /\ mpc' = "next" ]_vars
    /\ [][ (tstop = "zero") => (Len(chan') <= Len(chan) /\ tpc' # "parse") ]_vars
    /\ [][ (mstop = "zero") => (mentries' = mentries /\ file_refs' = file_refs
                                /\ mpc' # "parse") ]_vars

\* C31 witness: in a batch of 152 bytes the tailer sent the change of the
\* record at offset 8 and stopped on a zero-length record at offset 80, with
\* 72 bytes of the batch behind it.
C31_ZeroAfterSentRecord ==
    /\ tpc = "advance"
    /\ tstop = "zero"
    /\ tbytes = 152
    /\ toffset = 80
    /\ Len(chan) = 1

\* C32: the cursor protocol of the tail loop. read_data.StartUsn is written
\* by the journal query and by the statement that ends an iteration whose
\* read returned more than 8 bytes, which stores the cursor read from bytes
\* 0..8; every such iteration reaches that statement, however its record loop
\* stopped; an iteration whose read failed or returned at most 8 bytes keeps
\* StartUsn and sends nothing.
C32_CursorProtocol ==
    /\ [][ (StartUsn' # StartUsn) =>
              \/ tpc = "query"
              \/ tpc = "advance" /\ StartUsn' = next_usn ]_vars
    /\ [][ (tpc = "advance" /\ tpc' = "check") => StartUsn' = next_usn ]_vars
    /\ [][ (tpc = "parse") => tpc' \in {"parse", "advance"} ]_vars
    /\ [][ (tpc = "read" /\ tpc' = "sleep") =>
              (StartUsn' = StartUsn /\ chan' = chan) ]_vars
    /\ [][ (tpc = "sleep") =>
              (StartUsn' = StartUsn /\ Len(chan') <= Len(chan)
               /\ tpc' \in {"sleep", "check"}) ]_vars

\* C32 witness: an iteration that sent two changes has stored the cursor 1
\* and the loop condition is about to be evaluated again.
C32_CursorStored ==
    /\ tpc = "check"
    /\ Len(chan) = 2
    /\ StartUsn = 1

\* The entries should_include accepted in task i.
C33_AcceptedIn(i) == {a.entry : a \in {b \in accepted : b.task = i}}

\* C33: each index_drive call takes its entries from one source. Without
\* use_mft scan_volume is not called and the call goes to the walker; after
\* scan_volume returned Ok the walker does not run and yields nothing; after
\* scan_volume returned Err the call goes to the walker on the drive root and
\* every entry it accepts is one the walk yielded.
C33_OneSourcePerDrive ==
    /\ [](\A i \in DOMAIN dpc :
            /\ ~iconfig.use_mft => (dscan[i] = "no" /\ dpc[i] \in {"todo", "walk", "done"})
            /\ dscan[i] = "ok" => (dwalked[i] = {} /\ dpc[i] \in {"mft", "done"})
            /\ dscan[i] = "err" =>
                  /\ dpc[i] \in {"walk", "done"}
                  /\ dlist[i] = << >>
                  /\ \A e \in C33_AcceptedIn(i) : e.path \in dwalked[i]
            /\ dscan[i] = "no" => \A e \in C33_AcceptedIn(i) : e.path \in dwalked[i])
    /\ [][\A i \in DOMAIN dpc :
            /\ (dpc[i] = "todo" /\ dpc'[i] # "todo") =>
                  dpc'[i] = (IF iconfig.use_mft THEN "scan" ELSE "walk")
            /\ (dscan[i] # "err" /\ dscan'[i] = "err") => dpc'[i] = "walk"]_vars

\* C33 witness: index_all ran on two drives with use_mft; the enumeration of
\* one failed and its walk yielded an accepted entry, the enumeration of the
\* other succeeded and an entry of its list was accepted.
C33_OneWalkedOneScanned ==
    /\ ipc = "done"
    /\ iconfig.use_mft
    /\ \E i, j \in DOMAIN dpc :
        /\ dscan[i] = "err" /\ dwalked[i] # {} /\ C33_AcceptedIn(i) # {}
        /\ dscan[j] = "ok" /\ dwalked[j] = {} /\ C33_AcceptedIn(j) # {}

\* The reference the parent chain of r is at after n steps: it stays at a
\* reference that is absent from the table or whose parent is 0 or itself.
RECURSIVE C34_Ancestor(_, _, _)
C34_Ancestor(table, r, n) ==
    IF n = 0 THEN r
    ELSE LET a == C34_Ancestor(table, r, n - 1) IN
         IF a \notin DOMAIN table \/ table[a][2] = 0 \/ table[a][2] = a
         THEN a
         ELSE table[a][2]

\* The parent chain of every reference ends: after as many steps as the table
\* has entries it stands at an absent reference or at one without a parent.
C34_Acyclic(table) ==
    \A r \in DOMAIN table :
        LET a == C34_Ancestor(table, r, Cardinality(DOMAIN table)) IN
        a \notin DOMAIN table \/ table[a][2] = 0 \/ table[a][2] = a

\* The path of r by a walk that uses no cache: nothing for an absent
\* reference, the name for a reference without a parent, and otherwise the
\* parent's path, a backslash and the name.
RECURSIVE C34_Walk(_, _)
C34_Walk(table, r) ==
    IF r \notin DOMAIN table THEN << >>
    ELSE IF table[r][2] = 0 \/ table[r][2] = r THEN table[r][1]
    ELSE C34_Walk(table, table[r][2]) \o <<"\\">> \o table[r][1]

\* C34: on an acyclic reference table every build_path call, whatever calls
\* filled the cache before it, returns the path of the uncached walk of its
\* reference, and every cache entry is the uncached path of its key.
C34_MemoizationTransparent ==
    /\ [](C34_Acyclic(file_refs) =>
            \A r \in DOMAIN path_cache : path_cache[r] = C34_Walk(file_refs, r))
    /\ [][ (C34_Acyclic(file_refs) /\ Len(stack') < Len(stack)) =>
              ret' = C34_Walk(file_refs, Top) ]_vars

\* C34 witness: the path of 7, a child of 6, is in the cache, and the last
\* call to return was one for 6: it came after the call that cached 7 and 6,
\* so it was answered from the cache.
C34_ServedFromCache ==
    /\ rphase = "idle"
    /\ {6, 7} \subseteq DOMAIN file_refs
    /\ file_refs[7][2] = 6
    /\ file_refs[6][2] = root_ref
    /\ {6, 7} \subseteq DOMAIN path_cache
    /\ path_cache[7] = DriveRoot \o <<"\\">> \o file_refs[6][1] \o <<"\\">> \o file_refs[7][1]
    /\ ret = DriveRoot \o <<"\\">> \o file_refs[6][1]

\* C35: the changes sent and not yet received stay below a fixed capacity:
\* with a consumer that does not receive, the channel never fills up to the
\* MaxChan changes the model follows it for.
C35_ChannelBounded == Len(chan) < MaxChan

\* C36: each iteration of a record loop runs with offset below bytes_returned
\* and either stops the loop or leaves it at a larger offset, whatever the
\* header holds; so a loop over a buffer of bytes_returned bytes ends after
\* at most bytes_returned iterations.
C36_RecordLoopTerminates ==
    /\ [][ (\E l \in RecordLengths, o \in FileNameOffsets, n \in FileNameLengths :
                T_ParseRecord(l, o, n))
           => /\ toffset < tbytes
              /\ \/ tpc' = "advance"
                 \/ tpc' = "parse" /\ toffset' > toffset ]_vars
    /\ [][ (\E l \in MftRecordLengths, o \in MftFileNameOffsets, n \in MftFileNameLengths :
                M_ParseRecord(l, o, n) \/ M_ParseNamed(l, o, n))
           => /\ moffset < mbytes
              /\ \/ mpc' = "next"
                 \/ mpc' = "parse" /\ moffset' > moffset ]_vars
    /\ [][ (tpc = "parse" /\ toffset' # toffset) => toffset' > toffset ]_vars
    /\ [][ (mpc = "parse" /\ moffset' # moffset) => moffset' > moffset ]_vars
    /\ []((tpc = "parse" => toffset >= CursorBytes) /\ (mpc = "parse" => moffset >= CursorBytes))

\* C36 witness: the enumerator's loop has stepped over the two records of a
\* batch of 152 bytes and stands at its end, where the loop condition fails.
C36_LoopAtEnd ==
    /\ mpc = "parse"
    /\ mbytes = 152
    /\ moffset = 152
    /\ mrecord.RecordLength = 72
    /\ Len(mentries) = 2

\* The sum of the sizes of a set of entries.
RECURSIVE C37_SizeSum(_)
C37_SizeSum(S) ==
    IF S = {} THEN 0
    ELSE LET e == CHOOSE x \in S : TRUE IN e.size + C37_SizeSum(S \ {e})

\* C37: the statistics index_all returns agree with the entries it returns:
\* total_files is the number of returned files, total_dirs the number of
\* returned directories, total_size the sum of the sizes of the returned
\* files.
C37_StatsMatchEntries ==
    (ipc = "done") =>
        LET files == {e \in iresult.entries : ~e.is_dir}
            dirs  == {e \in iresult.entries : e.is_dir}
        IN /\ iresult.stats.total_files = Cardinality(files)
           /\ iresult.stats.total_dirs = Cardinality(dirs)
           /\ iresult.stats.total_size = C37_SizeSum(files)

HostInit ==
    /\ HostIdle
    /\ OthersIdle("host")

SpecHost == HostInit /\ [][HostNext]_vars

\* The static the call of thread t is about to lock, "none" if there is none.
C38_Wants(t) ==
    IF hpc[t] = "enter" THEN FirstLock(hcall[t].op)
    ELSE IF hpc[t] = "locked" /\ hcall[t].op = "nexus_search" THEN "SEARCH_RESULTS"
    ELSE "none"

\* The thread waits for a guard that is held.
C38_Blocked(t) == C38_Wants(t) # "none" /\ hlock[C38_Wants(t)] # NoThread

\* cached entries before search results before last error
C38_Rank(s) ==
    IF s = "CACHED_ENTRIES" THEN 1 ELSE IF s = "SEARCH_RESULTS" THEN 2 ELSE 3

\* C38: concurrent boundary calls cannot deadlock. A thread takes a lock only
\* while every lock it holds comes earlier in the order cached entries, search
\* results, last error; a lock is held only by a thread inside a call; no set
\* of threads waits for locks held inside the set; and a call that is not
\* waiting for a held lock can always take its next step.
C38_NoDeadlock ==
    /\ [](\A s \in Statics :
            hlock[s] # NoThread => hpc[hlock[s]] \in {"locked", "stored"})
    /\ [](\A W \in SUBSET HostThreads :
            W # {} => \E t \in W : ~(C38_Blocked(t) /\ hlock[C38_Wants(t)] \in W))
    /\ [](\A t \in HostThreads :
            (hpc[t] # "idle" /\ ~C38_Blocked(t)) => ENABLED HostStep(t))
    /\ [][\A t \in HostThreads, s \in Statics :
            (hlock'[s] = t /\ hlock[s] # t) =>
                \A held \in Statics : hlock[held] = t => C38_Rank(held) < C38_Rank(s)]_vars

\* C38 witness: thread 1 is inside nexus_search with the guard of the cached
\* entries and waits for the search results, whose guard thread 2 holds
\* inside nexus_get_search_result.
C38_SearchWaitsForReader ==
    /\ hcall[1].op = "nexus_search"
    /\ hpc[1] = "locked"
    /\ hlock["CACHED_ENTRIES"] = 1
    /\ hcall[2].op = "nexus_get_search_result"
    /\ hlock["SEARCH_RESULTS"] = 2

\* C39: a thread that got n from nexus_search reads its own n results back:
\* each nexus_get_search_result(i) it calls with i < n, before it searches or
\* clears again, returns the record of the i-th entry its search stored,
\* whatever the other threads call in between.
C39_OwnResultsReadBack ==
    [][\A t \in HostThreads :
          ( /\ hcall[t].op = "nexus_get_search_result"
            /\ hpc[t] = "locked"
            /\ hpc'[t] = "idle"
            /\ hcall[t].num < Len(hmine[t]) )
          => hret'[t] = PtrRet(from_entry(hmine[t][hcall[t].num + 1]).result)]_vars

RestartInit ==
    /\ RestartIdle
    /\ OthersIdle("restart")

\* Every IOCTL and every sleep of a spawned thread returns and the thread is
\* scheduled: a step of a thread that stays possible is eventually taken.
FairRestart ==
    /\ RestartInit
    /\ [][RestartNext]_vars
    /\ \A th \in TailThreads : WF_vars(U_ThreadStep(th))

\* C40: every thread that was running when stop() was called eventually
\* ends, also when start_monitoring is called again before the thread has
\* evaluated its loop condition.
C40_StoppedThreadsExit ==
    \A th \in TailThreads : (ustopped[th] ~> upc[th] = "done")

=============================================================================
